---- MODULE Spec2Model ----
(***************************************************************************)
(* Verification model of the scout-prod data-resolution layer.             *)
(*                                                                         *)
(*  - the data-lake result cache and fetchCSV of                           *)
(*    src/src/services/dataLakeService.ts (SpecCache);                     *)
(*  - the source orchestrator (Primary -> DataLake -> StaticFallback) with *)
(*    its consecutive-failure counter, sticky fallback flag, status read   *)
(*    and reconnect (SpecOrch);                                            *)
(*  - the cascading filter store of src/src/stores/filterStore.ts          *)
(*    (SpecFilter);                                                        *)
(*  - the join and the aggregations of the data-lake queries of            *)
(*    src/src/services/dataLakeService.ts (SpecLake);                      *)
(*  - parseCSV of the same file on its own, over texts whose data lines    *)
(*    have fewer, as many or more cells than the header (SpecParse);       *)
(*  - the fan-out of a query, Promise.all over fetchCSV calls             *)
(*    (SpecFanOut);                                                        *)
(*  - the filter store as the selects of CascadingFilters drive it         *)
(*    (SpecGuarded).                                                       *)
(***************************************************************************)
EXTENDS Integers, Sequences, FiniteSets, TLC

VARIABLES
    cache,      \* AzureDataLakeService.cache : cache key -> entry | absent
    now,        \* Date.now(), in milliseconds
    fetch,      \* one record per fetchCSV invocation slot
    lastStored, \* history: per file, the last fetchCSV that stored an entry
    lastDone,   \* history: per file, when a fetchCSV last returned rows
    consecutiveFailures, \* orchestrator: consecutive failed primary calls
    useMockFallback,     \* orchestrator: the sticky fallback flag
    mode,       \* orchestrator: Primary, DataLake or StaticFallback
    query,      \* one record per orchestrator query in flight
    rc,         \* the reconnect() invocation
    seen,       \* the last status object handed to a status display
    flagCause,  \* history: how the sticky flag last got its value
    store,      \* useFilterStore: the zustand state object, key -> value
    lastOp,     \* history: the last operation applied to the filter store
    tables,     \* per file, the rows fetchCSV resolves with
    answer,     \* the outcome of the last data-lake query
    blobText,   \* the text handed to parseCSV
    parsed      \* the outcome of parseCSV(blobText)

vars == <<cache, now, fetch, lastStored, lastDone,
          consecutiveFailures, useMockFallback, mode, query, rc, seen, flagCause,
          store, lastOp, tables, answer, blobText, parsed>>

cacheVars == <<cache, now, fetch, lastStored, lastDone>>
orchVars  == <<consecutiveFailures, useMockFallback, mode, query, rc, seen, flagCause>>
filterVars == <<store, lastOp>>
lakeVars == <<tables, answer>>
parseVars == <<blobText, parsed>>

----------------------------------------------------------------------------
(* Bounds of the model                                                     *)

MaxNow == 900000           \* the clock stops advancing after 15 minutes
NumFetchers == 2           \* concurrent fetchCSV invocations
NumQueries == 2            \* concurrent orchestrator queries
MaxFailures == 4           \* cap of the consecutive-failure counter
NumTimeFields == 2         \* time fields that callers set
MaxTransactions == 4       \* rows of transactions.csv
MaxItems == 2              \* rows of transaction_items.csv
MaxProducts == 51          \* rows of the long products.csv
MaxCells == 3              \* cells of a data line handed to parseCSV

----------------------------------------------------------------------------
(* CSV text and its parsing (dataLakeService.ts, parseCSV)                 *)
(* A text is the sequence of its lines (split on "\n"), a line the         *)
(* sequence of its cells (split on ","), a cell a sequence of characters.  *)

Digits == <<"0", "1", "2", "3", "4", "5", "6", "7", "8", "9">>

IsDigit(ch) == \E i \in 1..Len(Digits) : Digits[i] = ch

DigitValue(ch) == (CHOOSE i \in 1..Len(Digits) : Digits[i] = ch) - 1

IsSpace(ch) == ch = " "

RECURSIVE TrimLeft(_)
TrimLeft(s) ==
    IF s # <<>> /\ IsSpace(Head(s)) THEN TrimLeft(Tail(s)) ELSE s

RECURSIVE TrimRight(_)
TrimRight(s) ==
    IF s # <<>> /\ IsSpace(s[Len(s)]) THEN TrimRight(SubSeq(s, 1, Len(s) - 1)) ELSE s

\* String.prototype.trim
Trim(s) == TrimRight(TrimLeft(s))

\* .replace(/"/g, '')
StripQuotes(s) == SelectSeq(s, LAMBDA ch : ch # "\"")

\* h.trim().replace(/"/g, '') and v.trim().replace(/"/g, '')
CleanCell(s) == StripQuotes(Trim(s))

RECURSIVE DecimalValue(_)
DecimalValue(s) ==
    IF s = <<>> THEN 0
    ELSE 10 * DecimalValue(SubSeq(s, 1, Len(s) - 1)) + DigitValue(s[Len(s)])

\* Number(value) is not NaN: after its own whitespace trim the text is empty
\* or all digits (signs, fractions and exponents are outside the alphabet)
IsNumeric(s) == \A i \in 1..Len(Trim(s)) : IsDigit(Trim(s)[i])

\* Number(value), for a value that IsNumeric: Number("") = 0
ToNumber(s) == DecimalValue(Trim(s))

\* isNaN(Number(value)) ? value : Number(value)
Coerce(s) == IF IsNumeric(s) THEN [num |-> ToNumber(s)] ELSE [str |-> s]

\* values[index] || ''
CellAt(values, index) == IF index <= Len(values) THEN values[index] ELSE <<>>

CleanLine(line) == [i \in 1..Len(line) |-> CleanCell(line[i])]

\* one parsed row: headers.forEach((header, index) => row[header] = ...);
\* a repeated header keeps the value of its last column
ParseRow(headers, values) ==
    LET names == {headers[i] : i \in 1..Len(headers)}
        lastIndex(h) == CHOOSE i \in 1..Len(headers) :
                            /\ headers[i] = h
                            /\ \A j \in 1..Len(headers) : headers[j] = h => j <= i
    IN  [h \in names |-> Coerce(CellAt(values, lastIndex(h)))]

\* a line that holds nothing but white space
IsBlankLine(line) == Len(line) = 1 /\ TrimLeft(line[1]) = <<>>

RECURSIVE DropBlankHead(_)
DropBlankHead(lines) ==
    IF lines # <<>> /\ IsBlankLine(Head(lines)) THEN DropBlankHead(Tail(lines)) ELSE lines

RECURSIVE DropBlankTail(_)
DropBlankTail(lines) ==
    IF lines # <<>> /\ IsBlankLine(lines[Len(lines)])
    THEN DropBlankTail(SubSeq(lines, 1, Len(lines) - 1))
    ELSE lines

\* csvText.trim().split('\n'): white space, line breaks included, is cut
\* from both ends of the text; the empty text splits into one empty line
TrimText(lines) ==
    LET core == DropBlankTail(DropBlankHead(lines))
    IN  IF core = <<>> THEN << << <<>> >> >>
        ELSE LET left == [core EXCEPT ![1][1] = TrimLeft(@)]
                 last == Len(left)
             IN  [left EXCEPT ![last][Len(left[last])] = TrimRight(@)]

\* variant: the loop over the lines starts at the header line
ParseCSVHeaderAsRow(csvText) ==
    LET lines == TrimText(csvText)
        headers == CleanLine(lines[1])
    IN  [i \in 1..Len(lines) |-> ParseRow(headers, CleanLine(lines[i]))]

\* parseCSV(csvText): no rows for fewer than two lines, else one row per
\* line after the header line
ParseCSV(csvText) ==
    LET lines == TrimText(csvText)
    IN  IF Len(lines) < 2 THEN <<>>
        ELSE LET headers == CleanLine(lines[1])
             IN  [i \in 1..(Len(lines) - 1) |->
                     ParseRow(headers, CleanLine(lines[i + 1]))]

----------------------------------------------------------------------------
(* The blobs the storage account can answer with                           *)

Files == {"transactions.csv", "brands.csv"}

EmptyText  == << << <<>> >> >>
HeaderOnly == << << <<"i", "d">>, <<"a">> >> >>
OneRow     == << << <<"i", "d">>, <<"a">> >>, << <<"1">>, <<"\"", "7", "\"">> >> >>

Blobs == {EmptyText, HeaderOnly, OneRow}

----------------------------------------------------------------------------
(* parseCSV on its own: the texts it is handed and its outcome             *)

\* the texts: the header line id,"a" alone, followed by one data line, or
\* by one data line and a second one with a cell for each column; a data
\* line has at least one cell (a split on "," gives one), a cell is empty,
\* 7, a, "7" in quotes, or 1a after a blank
CsvTexts ==
    LET header == << <<"i", "d">>, <<"\"", "a", "\"">> >>
        cells == {<<>>, <<"7">>, <<"a">>, <<"\"", "7", "\"">>, <<" ", "1", "a">>}
        dataLines == UNION {[1..n -> cells] : n \in 1..MaxCells}
    IN  {<<header>>} \cup {<<header, l>> : l \in dataLines}
            \cup {<<header, l, m>> : l \in dataLines, m \in [1..Len(header) -> cells]}

NoParse == [status |-> "none"]

\* parseCSV has no throw statement: whatever the text, it returns its rows
ParseOutcome(text) == [status |-> "returned", rows |-> ParseCSV(text)]

ParseCSVCall ==
    /\ parsed = NoParse
    /\ parsed' = ParseOutcome(blobText)
    /\ UNCHANGED blobText
    /\ UNCHANGED <<cacheVars, orchVars, filterVars, lakeVars>>

----------------------------------------------------------------------------
(* The result cache (dataLakeService.ts, cache / getFromCache / setCache)  *)

\* `csv_${filename}`
CacheKey(filename) == <<"csv_", filename>>

CacheKeys == {CacheKey(f) : f \in Files}

\* Map.get of a key the map does not hold
Absent == [absent |-> TRUE]

\* the values getFromCache hands to fetchCSV: null, or the cached array
JsNull == [type |-> "null"]
JsArray(rows) == [type |-> "array", val |-> rows]

MsPerMinute == 60 * 1000

FetchTtlMinutes == 15

\* variant: an entry whose age equals its TTL still counts as valid
EntryValidInclusive(cached, t) ==
    cached # Absent /\ t - cached.timestamp <= cached.ttl

\* cached && Date.now() - cached.timestamp < cached.ttl
EntryValid(cached, t) == cached # Absent /\ t - cached.timestamp < cached.ttl

\* the value getFromCache(key) returns
GetFromCache(key) ==
    IF EntryValid(cache[key], now) THEN JsArray(cache[key].data) ELSE JsNull

\* variant: a miss leaves the map as it is
CacheAfterGetKeeping(key) == cache

\* the map after getFromCache(key): this.cache.delete(key) on every miss
CacheAfterGet(key) ==
    IF EntryValid(cache[key], now) THEN cache ELSE [cache EXCEPT ![key] = Absent]

\* the map after setCache(key, data, ttlMinutes)
SetCache(map, key, data, ttlMinutes) ==
    [map EXCEPT ![key] = [data |-> data, timestamp |-> now,
                          ttl |-> ttlMinutes * MsPerMinute]]

\* variant: if (cached && cached.length), an empty table counts as a miss
TruthyNonEmpty(v) == v.type # "null" /\ Len(v.val) > 0

\* if (cached): an array, also the empty one, is truthy; null is not
Truthy(v) == v.type # "null"

----------------------------------------------------------------------------
(* fetchCSV (dataLakeService.ts)                                           *)

Fetchers == 1..NumFetchers

Never == -1

NoCall == [at |-> Never]

IdleFetch == [pc |-> "idle", file |-> "", issued |-> FALSE, result |-> JsNull]

\* variant: single flight, a miss joins a request already in flight for the file
ShareRequest(c, f) ==
    [pc |-> "awaiting", file |-> f,
     issued |-> ~\E d \in Fetchers \ {c} :
                    fetch[d].pc = "awaiting" /\ fetch[d].file = f,
     result |-> JsNull]

\* await axios.get(...): every miss sends its own GET, whatever else is in flight
IssueRequest(c, f) ==
    [pc |-> "awaiting", file |-> f, issued |-> TRUE, result |-> JsNull]

\* fetchCSV(filename) up to its first suspension: the cache lookup, then
\* either the cached rows are returned or the GET request is issued
FetchCSVCall(c, f) ==
    /\ fetch[c].pc # "awaiting"
    /\ LET cached == GetFromCache(CacheKey(f))
       IN  /\ cache' = CacheAfterGet(CacheKey(f))
           /\ IF Truthy(cached)
              THEN /\ fetch' = [fetch EXCEPT ![c] =
                          [pc |-> "returned", file |-> f, issued |-> FALSE,
                           result |-> cached]]
                   /\ lastDone' = [lastDone EXCEPT ![f] = now]
              ELSE /\ fetch' = [fetch EXCEPT ![c] = IssueRequest(c, f)]
                   /\ lastDone' = lastDone
    /\ UNCHANGED <<now, lastStored>>
    /\ UNCHANGED <<orchVars, filterVars, lakeVars, parseVars>>

\* the GET resolves: parse, store for 15 minutes, return the rows
FetchCSVResponse(c, blob) ==
    /\ fetch[c].pc = "awaiting"
    /\ LET f == fetch[c].file
           data == ParseCSV(blob)
       IN  /\ cache' = SetCache(cache, CacheKey(f), data, FetchTtlMinutes)
           /\ fetch' = [fetch EXCEPT ![c].pc = "returned", ![c].result = JsArray(data)]
           /\ lastStored' = [lastStored EXCEPT ![f] = [at |-> now, data |-> data]]
           /\ lastDone' = [lastDone EXCEPT ![f] = now]
    /\ UNCHANGED now
    /\ UNCHANGED <<orchVars, filterVars, lakeVars, parseVars>>

\* variant: a rejected GET aborts every other request in flight
FetchCSVErrorAborting(c) ==
    /\ fetch[c].pc = "awaiting"
    /\ fetch' = [d \in Fetchers |->
                    IF fetch[d].pc = "awaiting" THEN [fetch[d] EXCEPT !.pc = "thrown"]
                    ELSE fetch[d]]
    /\ UNCHANGED <<cache, now, lastStored, lastDone>>
    /\ UNCHANGED <<orchVars, filterVars, lakeVars, parseVars>>

\* the GET rejects: catch, then throw new Error(`Unable to fetch ...`)
FetchCSVError(c) ==
    /\ fetch[c].pc = "awaiting"
    /\ fetch' = [fetch EXCEPT ![c].pc = "thrown"]
    /\ UNCHANGED <<cache, now, lastStored, lastDone>>
    /\ UNCHANGED <<orchVars, filterVars, lakeVars, parseVars>>

\* clearCache()
ClearCache ==
    /\ cache' = [k \in CacheKeys |-> Absent]
    /\ lastStored' = [f \in Files |-> NoCall]
    /\ lastDone' = [f \in Files |-> Never]
    /\ UNCHANGED <<now, fetch>>
    /\ UNCHANGED <<orchVars, filterVars, lakeVars, parseVars>>

\* the array handed to Promise.all by a query; the two files of the model
\* stand for the tables of the query, slot i fetching the i-th of them
FanOutFiles == <<"transactions.csv", "brands.csv">>

\* await Promise.all([this.fetchCSV(...), ...]) up to its suspension: every
\* fetchCSV of the array runs to its own first suspension, in array order
FanOutCall ==
    /\ \A c \in DOMAIN FanOutFiles : fetch[c].pc # "awaiting"
    /\ cache' = [k \in CacheKeys |-> CacheAfterGet(k)[k]]
    /\ fetch' = [c \in Fetchers |->
                    IF c \notin DOMAIN FanOutFiles THEN fetch[c]
                    ELSE LET cached == GetFromCache(CacheKey(FanOutFiles[c]))
                         IN  IF Truthy(cached)
                             THEN [pc |-> "returned", file |-> FanOutFiles[c],
                                   issued |-> FALSE, result |-> cached]
                             ELSE IssueRequest(c, FanOutFiles[c])]
    /\ lastDone' = [f \in Files |->
                       IF Truthy(GetFromCache(CacheKey(f))) THEN now ELSE lastDone[f]]
    /\ UNCHANGED <<now, lastStored>>
    /\ UNCHANGED <<orchVars, filterVars, lakeVars, parseVars>>

\* the promise of Promise.all: rejected as soon as one fetchCSV of the array
\* has thrown, resolved once all have returned
JoinStatus ==
    IF \E c \in DOMAIN FanOutFiles : fetch[c].pc = "thrown" THEN "rejected"
    ELSE IF \A c \in DOMAIN FanOutFiles : fetch[c].pc = "returned" THEN "resolved"
    ELSE IF \E c \in DOMAIN FanOutFiles : fetch[c].pc = "awaiting" THEN "pending"
    ELSE "none"

\* time passes between two events of the event loop
ClockSteps == {450000, 899999}

Tick(d) ==
    /\ now + d <= MaxNow
    /\ now' = now + d
    /\ UNCHANGED <<cache, fetch, lastStored, lastDone>>
    /\ UNCHANGED <<orchVars, filterVars, lakeVars, parseVars>>

----------------------------------------------------------------------------
(* The source orchestrator: remote API, then data lake, then static data   *)

FailureThreshold == 3

Retries == 3

ErrorClasses == {"NetworkError", "ServerError", "ClientError",
                 "AuthError", "ParseError", "EmptyResultError"}

\* connection refused / timeout, HTTP >= 500
FatalClasses == {"NetworkError", "ServerError"}

\* what the remote client can classify a failed health probe as
ProbeErrorClasses == {"NetworkError", "ServerError", "ClientError"}

Queries == 1..NumQueries

IdleQuery == [pc |-> "idle", tries |-> 0, err |-> "none", answer |-> "none",
              trace |-> <<>>]

IdleReconnect == [pc |-> "idle", tries |-> 0, err |-> "none", result |-> "none"]

\* variant: the flag is set once the counter exceeds the threshold
SetsFlagAboveThreshold(count, class) ==
    count > FailureThreshold \/ class \in FatalClasses

\* the failure that has just been counted sets the sticky flag
SetsFlag(count, class) == count >= FailureThreshold \/ class \in FatalClasses

\* variant: every failure that does not set the flag is handed to the caller
ReturnedToCallerUnlessFlagged(count, class) == ~SetsFlag(count, class)

\* a failure that is handed back to the caller instead of falling back
ReturnedToCaller(count, class) == class = "ClientError" /\ ~SetsFlag(count, class)

\* a failure the remote client retries at transport level
Retried(class) == class \in FatalClasses

\* status.currentDataSource
CurrentDataSource ==
    CASE mode = "Primary" -> "azure-api"
      [] mode = "DataLake" -> "data-lake"
      [] OTHER -> "mock"

\* the read-only status object
ServiceStatus ==
    [useMockFallback |-> useMockFallback,
     currentDataSource |-> CurrentDataSource,
     consecutiveFailures |-> consecutiveFailures,
     azureConnected |-> ~useMockFallback]

\* a caller asks for a logical resource: the primary source is tried first
QueryCall(q) ==
    /\ query[q].pc \in {"idle", "done"}
    /\ query' = [query EXCEPT ![q] =
           [pc |-> "primary", tries |-> 0, err |-> "none", answer |-> "none",
            trace |-> <<"remote">>]]
    /\ UNCHANGED <<consecutiveFailures, useMockFallback, mode, rc, seen, flagCause>>
    /\ UNCHANGED <<cacheVars, filterVars, lakeVars, parseVars>>

\* the primary call succeeds: counter to 0, flag cleared, back to Primary
PrimarySuccess(q) ==
    /\ query[q].pc = "primary"
    /\ consecutiveFailures' = 0
    /\ useMockFallback' = FALSE
    /\ mode' = "Primary"
    /\ flagCause' = "success"
    /\ query' = [query EXCEPT ![q].pc = "done", ![q].tries = 0,
                              ![q].answer = "remote"]
    /\ UNCHANGED <<rc, seen>>
    /\ UNCHANGED <<cacheVars, filterVars, lakeVars, parseVars>>

\* a transport-level retry of the GET (never for a 4xx response)
PrimaryRetry(q, class) ==
    /\ query[q].pc = "primary"
    /\ Retried(class)
    /\ query[q].tries < Retries
    /\ query' = [query EXCEPT ![q].tries = @ + 1]
    /\ UNCHANGED <<consecutiveFailures, useMockFallback, mode, rc, seen, flagCause>>
    /\ UNCHANGED <<cacheVars, filterVars, lakeVars, parseVars>>

\* the primary call fails with the given classification
PrimaryFailure(q, class) ==
    /\ query[q].pc = "primary"
    /\ Retried(class) => query[q].tries = Retries
    /\ consecutiveFailures < MaxFailures
    /\ consecutiveFailures' = consecutiveFailures + 1
    /\ IF SetsFlag(consecutiveFailures + 1, class)
       THEN /\ useMockFallback' = TRUE
            /\ mode' = "DataLake"
            /\ flagCause' = "set"
       ELSE UNCHANGED <<useMockFallback, mode, flagCause>>
    /\ IF ReturnedToCaller(consecutiveFailures + 1, class)
       THEN query' = [query EXCEPT ![q].pc = "done", ![q].tries = 0,
                                   ![q].answer = class]
       ELSE query' = [query EXCEPT ![q].pc = "lake", ![q].tries = 0,
                                   ![q].err = class,
                                   ![q].trace = Append(@, "data-lake")]
    /\ UNCHANGED <<rc, seen>>
    /\ UNCHANGED <<cacheVars, filterVars, lakeVars, parseVars>>

\* the data-lake attempt of the query answers
LakeSuccess(q) ==
    /\ query[q].pc = "lake"
    /\ query' = [query EXCEPT ![q].pc = "done", ![q].err = "none",
                              ![q].answer = "data-lake"]
    /\ UNCHANGED <<consecutiveFailures, useMockFallback, mode, rc, seen, flagCause>>
    /\ UNCHANGED <<cacheVars, filterVars, lakeVars, parseVars>>

\* variant: a data-lake failure switches the orchestrator to the static source
LakeFailureSticky(q) ==
    /\ query[q].pc = "lake"
    /\ query' = [query EXCEPT ![q].pc = "done", ![q].err = "none",
                              ![q].answer = "static",
                              ![q].trace = Append(@, "static")]
    /\ useMockFallback' = TRUE
    /\ mode' = "StaticFallback"
    /\ flagCause' = "set"
    /\ UNCHANGED <<consecutiveFailures, rc, seen>>
    /\ UNCHANGED <<cacheVars, filterVars, lakeVars, parseVars>>

\* DataLakeUnavailable: static fallback, for this call only
LakeFailure(q) ==
    /\ query[q].pc = "lake"
    /\ query' = [query EXCEPT ![q].pc = "done", ![q].err = "none",
                              ![q].answer = "static",
                              ![q].trace = Append(@, "static")]
    /\ UNCHANGED <<consecutiveFailures, useMockFallback, mode, rc, seen, flagCause>>
    /\ UNCHANGED <<cacheVars, filterVars, lakeVars, parseVars>>

\* reconnect(): counter to 0, flag cleared, then the health probe is issued
ReconnectCall ==
    /\ rc.pc # "probing"
    /\ consecutiveFailures' = 0
    /\ flagCause' = IF useMockFallback THEN "reconnect" ELSE flagCause
    /\ useMockFallback' = FALSE
    /\ rc' = [pc |-> "probing", tries |-> 0, err |-> "none", result |-> "none"]
    /\ UNCHANGED <<mode, query, seen>>
    /\ UNCHANGED <<cacheVars, filterVars, lakeVars, parseVars>>

ProbeRetry(class) ==
    /\ rc.pc = "probing"
    /\ Retried(class)
    /\ rc.tries < Retries
    /\ rc' = [rc EXCEPT !.tries = @ + 1]
    /\ UNCHANGED <<consecutiveFailures, useMockFallback, mode, query, seen, flagCause>>
    /\ UNCHANGED <<cacheVars, filterVars, lakeVars, parseVars>>

\* the probe reached the primary source: a primary success
ProbeSuccess ==
    /\ rc.pc = "probing"
    /\ consecutiveFailures' = 0
    /\ useMockFallback' = FALSE
    /\ mode' = "Primary"
    /\ flagCause' = "success"
    /\ rc' = [rc EXCEPT !.pc = "returned", !.tries = 0, !.result = "true"]
    /\ UNCHANGED <<query, seen>>
    /\ UNCHANGED <<cacheVars, filterVars, lakeVars, parseVars>>

\* variant: a failed probe sets the flag only under the rule of a failed query
ProbeFailureByRule(class) ==
    /\ rc.pc = "probing"
    /\ Retried(class) => rc.tries = Retries
    /\ consecutiveFailures < MaxFailures
    /\ consecutiveFailures' = consecutiveFailures + 1
    /\ IF SetsFlag(consecutiveFailures + 1, class)
       THEN /\ useMockFallback' = TRUE
            /\ mode' = "DataLake"
            /\ flagCause' = "set"
       ELSE UNCHANGED <<useMockFallback, mode, flagCause>>
    /\ rc' = [rc EXCEPT !.pc = "returned", !.tries = 0, !.err = class,
                        !.result = "false"]
    /\ UNCHANGED <<query, seen>>
    /\ UNCHANGED <<cacheVars, filterVars, lakeVars, parseVars>>

\* the probe failed: a primary failure, and the flag is set again
ProbeFailure(class) ==
    /\ rc.pc = "probing"
    /\ Retried(class) => rc.tries = Retries
    /\ consecutiveFailures < MaxFailures
    /\ consecutiveFailures' = consecutiveFailures + 1
    /\ useMockFallback' = TRUE
    /\ mode' = "DataLake"
    /\ flagCause' = "set"
    /\ rc' = [rc EXCEPT !.pc = "returned", !.tries = 0, !.err = class,
                        !.result = "false"]
    /\ UNCHANGED <<query, seen>>
    /\ UNCHANGED <<cacheVars, filterVars, lakeVars, parseVars>>

\* a status display reads the status object
GetServiceStatus ==
    /\ seen' = [useMockFallback |-> ServiceStatus.useMockFallback,
                cause |-> flagCause]
    /\ UNCHANGED <<consecutiveFailures, useMockFallback, mode, query, rc, flagCause>>
    /\ UNCHANGED <<cacheVars, filterVars, lakeVars, parseVars>>

----------------------------------------------------------------------------
(* The filter store (stores/filterStore.ts)                                *)

geographyLevels == <<"region", "city", "municipality", "barangay">>

organizationLevels == <<"holding_company", "client", "category", "brand", "sku">>

TimeFieldList == <<"year", "quarter", "month", "week", "day", "hour">>

TimeFields == {TimeFieldList[i] : i \in 1..Len(TimeFieldList)}

\* the elements of a list
Elements(list) == {list[i] : i \in 1..Len(list)}

FilterFields == Elements(geographyLevels) \cup Elements(organizationLevels) \cup TimeFields

\* the action functions the state object holds next to the filter fields
ActionNames == {"setFilter", "clearFilters", "clearGeographyFromLevel",
                "clearOrganizationFromLevel", "getActiveFilters"}

StoreKeys == FilterFields \cup ActionNames

JsString(text) == [type |-> "string", val |-> text]

JsNumber(n) == [type |-> "number", val |-> n]

JsFunction == [type |-> "function"]

\* the values a caller passes for a field, null included
FilterValues(key) ==
    CASE key \in {"year", "quarter", "month", "week", "hour"} -> {JsNull, JsNumber(1)}
      [] OTHER -> {JsNull, JsString("A")}

\* variant: the membership test of the cascade always succeeds
IncludesAlways(list, key) == TRUE

\* list.includes(key)
Includes(list, key) == key \in Elements(list)

\* variant: the index of the slot behind the one of key
IndexOfNext(list, key) ==
    IF key \in Elements(list) THEN (CHOOSE i \in 1..Len(list) : list[i] = key) + 1 ELSE 0

\* list.indexOf(key), counted from 1; 0 stands for the -1 of a missing key
IndexOf(list, key) ==
    IF key \in Elements(list) THEN CHOOSE i \in 1..Len(list) : list[i] = key ELSE 0

\* state with every key of the set assigned null
Nulled(state, keys) == [k \in DOMAIN state |-> IF k \in keys THEN JsNull ELSE state[k]]

\* list.slice(from - 1).forEach(level => { newState[level] = null })
RECURSIVE NullFrom(_, _, _)
NullFrom(state, list, from) ==
    IF from > Len(list) THEN state
    ELSE NullFrom([state EXCEPT ![list[from]] = JsNull], list, from + 1)

\* variant: the dependent slots are not cleared
SetFilterResultNoCascade(state, key, value) == [state EXCEPT ![key] = value]

\* the state setFilter(key, value) returns to set()
SetFilterResult(state, key, value) ==
    LET newState == [state EXCEPT ![key] = value]
        afterGeography ==
            IF Includes(geographyLevels, key)
            THEN NullFrom(newState, geographyLevels, IndexOf(geographyLevels, key) + 1)
            ELSE newState
    IN  IF Includes(organizationLevels, key)
        THEN NullFrom(afterGeography, organizationLevels,
                      IndexOf(organizationLevels, key) + 1)
        ELSE afterGeography

\* variant: the reset object misses the last field
ClearFiltersResultPartial(state) == Nulled(state, FilterFields \ {"hour"})

\* the state after clearFilters(): set() merges the all-null object
ClearFiltersResult(state) == Nulled(state, FilterFields)

\* the state clearGeographyFromLevel / clearOrganizationFromLevel return
ClearFromLevelResult(state, list, level) ==
    IF IndexOf(list, level) >= 1
    THEN NullFrom(state, list, IndexOf(list, level))
    ELSE state

\* variant: only null values are left out, the typeof test is missing
GetActiveFiltersNoTypeTest(state) ==
    LET keys == {k \in DOMAIN state : state[k] # JsNull}
    IN  [k \in keys |-> state[k]]

\* getActiveFilters(): the entries that are not null and not functions
GetActiveFilters(state) ==
    LET keys == {k \in DOMAIN state :
                    state[k] # JsNull /\ state[k].type # "function"}
    IN  [k \in keys |-> state[k]]

\* some slot that held a value holds null afterwards, other than the slot
\* that was assigned
NulledSome(before, after, assigned) ==
    \E k \in FilterFields \ {assigned} : before[k] # JsNull /\ after[k] = JsNull

\* the keys callers pass to setFilter: every hierarchy level and the last
\* time fields of the interface, a text-valued one among them
SetKeys ==
    Elements(geographyLevels) \cup Elements(organizationLevels)
        \cup {TimeFieldList[i] : i \in (Len(TimeFieldList) - NumTimeFields + 1)..Len(TimeFieldList)}

SetFilter(key, value) ==
    /\ store' = SetFilterResult(store, key, value)
    /\ lastOp' = [op |-> "setFilter",
                  nulled |-> NulledSome(store, store', key)]
    /\ UNCHANGED <<cacheVars, orchVars, lakeVars, parseVars>>

\* setFilter as the selects of CascadingFilters call it: the select of a
\* hierarchy slot is disabled while the slot before it is null, so such a
\* slot gets a value only while its parent has one; null can always be set
GuardedSetFilter(key, value) ==
    /\ \A list \in {geographyLevels, organizationLevels} :
        \A i \in 2..Len(list) :
            (key = list[i] /\ value # JsNull) => store[list[i - 1]] # JsNull
    /\ SetFilter(key, value)

ClearFilters ==
    /\ store' = ClearFiltersResult(store)
    /\ lastOp' = [op |-> "clearFilters", nulled |-> NulledSome(store, store', "")]
    /\ UNCHANGED <<cacheVars, orchVars, lakeVars, parseVars>>

ClearGeographyFromLevel(level) ==
    /\ store' = ClearFromLevelResult(store, geographyLevels, level)
    /\ lastOp' = [op |-> "clearGeographyFromLevel",
                  nulled |-> NulledSome(store, store', "")]
    /\ UNCHANGED <<cacheVars, orchVars, lakeVars, parseVars>>

ClearOrganizationFromLevel(level) ==
    /\ store' = ClearFromLevelResult(store, organizationLevels, level)
    /\ lastOp' = [op |-> "clearOrganizationFromLevel",
                  nulled |-> NulledSome(store, store', "")]
    /\ UNCHANGED <<cacheVars, orchVars, lakeVars, parseVars>>

\* create(): every filter field null, the five actions in place
InitialStore == [k \in StoreKeys |-> IF k \in ActionNames THEN JsFunction ELSE JsNull]

----------------------------------------------------------------------------
(* The data-lake tables (dataLakeService.ts, CSVData[])                    *)
(* A table is the sequence of rows fetchCSV resolves with; a row maps its  *)
(* column names to cells.  A cell is a number or a text: [num |-> n] is    *)
(* the integer n, [hundredths |-> h] the number h / 100 when that is not   *)
(* an integer, [str |-> s] the text s.                                     *)

NumberCell(n) == [num |-> n]
DecimalCell(h) == [hundredths |-> h]
TextCell(s) == [str |-> s]

JsUndefined == [type |-> "undefined"]

\* row[name]: undefined for a column the row does not have
Field(row, name) == IF name \in DOMAIN row THEN row[name] ELSE JsUndefined

LakeFiles == {"transactions.csv", "transaction_items.csv", "customers.csv",
              "stores.csv", "products.csv", "brands.csv"}

\* transaction_date holds epoch milliseconds, a number new Date() accepts
TransactionRow(id, customer, shop, amount, date) ==
    [transaction_id |-> NumberCell(id), customer_id |-> NumberCell(customer),
     store_id |-> NumberCell(shop), total_amount |-> amount,
     transaction_date |-> NumberCell(date)]

\* customer 9 and store 9 have no row in any customers or stores table
TransactionRows ==
    {TransactionRow(1, 1, 1, NumberCell(100), 1),
     TransactionRow(2, 1, 2, NumberCell(200), 2),
     TransactionRow(3, 2, 1, NumberCell(300), 3),
     TransactionRow(4, 9, 9, NumberCell(400), 4),
     TransactionRow(5, 2, 1, DecimalCell(1050), 2),
     TransactionRow(6, 1, 1, TextCell(<<"n", "a">>), 5),
     TransactionRow(7, 1, 1, NumberCell(-100), 1)}

ItemRow(transaction, product, quantity, total) ==
    [transaction_id |-> NumberCell(transaction), product_id |-> NumberCell(product),
     quantity |-> NumberCell(quantity), line_total |-> NumberCell(total)]

\* product 9 has no row in any products table, transaction 8 no row either
ItemRows ==
    {ItemRow(1, 1, 2, 100), ItemRow(1, 9, 1, 50),
     ItemRow(3, 2, 1, 300), ItemRow(8, 1, 3, 150)}

CustomerRow(id) == [customer_id |-> NumberCell(id)]

StoreRow(id) == [store_id |-> NumberCell(id)]

ProductRow(id, name, category, brand) ==
    [product_id |-> NumberCell(id), product_name |-> TextCell(name),
     category |-> TextCell(category), brand_id |-> NumberCell(brand)]

BrandRow(id) == [brand_id |-> NumberCell(id)]

CustomerTable == <<CustomerRow(1), CustomerRow(2)>>
StoreTable == <<StoreRow(1), StoreRow(2)>>
ProductTable == <<ProductRow(1, <<"a">>, <<"x">>, 1), ProductRow(2, <<"b">>, <<"x">>, 9)>>
BrandTable == <<BrandRow(1)>>

\* the sequences of at most n different elements of a set
SeqsOfDistinct(S, n) ==
    UNION {{q \in [1..k -> S] : \A i, j \in 1..k : i # j => q[i] # q[j]} : k \in 0..n}

TransactionTables == SeqsOfDistinct(TransactionRows, MaxTransactions)

ItemTables == SeqsOfDistinct(ItemRows, MaxItems)

Lake(transactions, items, customers, stores, products, brands) ==
    [f \in LakeFiles |->
        CASE f = "transactions.csv" -> transactions
          [] f = "transaction_items.csv" -> items
          [] f = "customers.csv" -> customers
          [] f = "stores.csv" -> stores
          [] f = "products.csv" -> products
          [] OTHER -> brands]

\* every transactions table, with the full dimension tables
LongLakes ==
    {Lake(t, <<ItemRow(1, 1, 2, 100), ItemRow(3, 2, 1, 300)>>,
          CustomerTable, StoreTable, ProductTable, BrandTable)
     : t \in TransactionTables}

\* short transactions tables, with every items table and with dimension
\* tables that are full or empty
WideLakes ==
    {Lake(t, i, c, s, p, BrandTable) :
        t \in SeqsOfDistinct({r \in TransactionRows : r["transaction_id"].num <= 4}, 2),
        i \in ItemTables,
        c \in {<<>>, CustomerTable}, s \in {<<>>, StoreTable},
        p \in {<<>>, ProductTable}}

\* a products table longer than the ranking, with one item row per product:
\* the revenues rise with the product_id, fall with it, or come in pairs
ManyProductLakes ==
    {Lake(<<TransactionRow(1, 1, 1, NumberCell(100), 1)>>,
          [i \in 1..MaxProducts |-> ItemRow(1, i, 1, revenue[i])],
          CustomerTable, StoreTable,
          [i \in 1..MaxProducts |-> ProductRow(i, <<"a">>, <<"x">>, 1)],
          BrandTable)
     : revenue \in {[i \in 1..MaxProducts |-> i],
                    [i \in 1..MaxProducts |-> MaxProducts + 1 - i],
                    [i \in 1..MaxProducts |-> (i + 1) \div 2]}}

Lakes == LongLakes \cup WideLakes \cup ManyProductLakes

----------------------------------------------------------------------------
(* getTransactionData (dataLakeService.ts): the join                       *)

\* new Map(rows.map(r => [r[key], r])).get(value): of the rows with that
\* key the last one, undefined when there is none
MapGet(rows, key, value) ==
    LET hits == {i \in 1..Len(rows) : Field(rows[i], key) = value}
    IN  IF hits = {} THEN JsUndefined
        ELSE rows[CHOOSE i \in hits : \A j \in hits : j <= i]

\* x || null, for x a row object or undefined
OrNull(x) == IF x = JsUndefined THEN JsNull ELSE x

\* { ...row, ...extra }
Spread(row, extra) ==
    [k \in DOMAIN row \cup DOMAIN extra |->
        IF k \in DOMAIN extra THEN extra[k] ELSE row[k]]

\* variant: the items are not filtered by transaction
ItemsOfAny(transaction, transactionItems) == transactionItems

\* transactionItems.filter(item => item.transaction_id === transaction.transaction_id)
ItemsOf(transaction, transactionItems) ==
    SelectSeq(transactionItems,
              LAMBDA item : Field(item, "transaction_id")
                                = Field(transaction, "transaction_id"))

\* { ...item, product: productMap.get(item.product_id) || null }
EnrichedItem(item, products) ==
    Spread(item, [product |->
        OrNull(MapGet(products, "product_id", Field(item, "product_id")))])

EnrichedTransaction(transaction, lake) ==
    LET items == ItemsOf(transaction, lake["transaction_items.csv"])
    IN  Spread(transaction,
               [customer |-> OrNull(MapGet(lake["customers.csv"], "customer_id",
                                           Field(transaction, "customer_id"))),
                store |-> OrNull(MapGet(lake["stores.csv"], "store_id",
                                        Field(transaction, "store_id"))),
                items |-> [k \in 1..Len(items) |->
                              EnrichedItem(items[k], lake["products.csv"])]])

\* variant: an inner join, transactions without a customer or store row are dropped
EnrichedTransactionsInner(lake) ==
    SelectSeq([i \in 1..Len(lake["transactions.csv"]) |->
                  EnrichedTransaction(lake["transactions.csv"][i], lake)],
              LAMBDA t : t["customer"] # JsNull /\ t["store"] # JsNull)

\* transactions.map(transaction => ...)
EnrichedTransactions(lake) ==
    [i \in 1..Len(lake["transactions.csv"]) |->
        EnrichedTransaction(lake["transactions.csv"][i], lake)]

\* the tables a query fetches with Promise.all
RequiredTables(op) ==
    IF op = "getProductPerformance"
    THEN {"transactions.csv", "transaction_items.csv", "products.csv", "brands.csv"}
    ELSE LakeFiles \ {"brands.csv"}

\* the fetches of a query that reject: none, one of them, all of them
Failures(op) ==
    {{}} \cup {{f} : f \in RequiredTables(op)} \cup {RequiredTables(op)}

Rejected(op, message) == [op |-> op, status |-> "rejected", error |-> message]

Resolved(op, value) == [op |-> op, status |-> "resolved", value |-> value]

NoAnswer == [op |-> "none", status |-> "none"]

\* fetchCSV: throw new Error(`Unable to fetch ${filename} from data lake`)
FetchError == "Unable to fetch from data lake"

\* what getTransactionData settles with: Promise.all rejects as soon as one
\* fetchCSV rejects, and the catch block rethrows
TransactionData(lake, failed) ==
    IF failed # {} THEN Rejected("getTransactionData", FetchError)
    ELSE Resolved("getTransactionData", EnrichedTransactions(lake))

GetTransactionData(failed) ==
    /\ answer' = TransactionData(tables, failed)
    /\ UNCHANGED tables
    /\ UNCHANGED <<cacheVars, orchVars, filterVars, parseVars>>

----------------------------------------------------------------------------
(* calculateKPIMetrics (dataLakeService.ts)                                *)
(* Sums of amounts are kept in hundredths; the quotients the code rounds   *)
(* are kept as exact fractions, without the error of binary floating point *)

\* Number(x) || 0, in hundredths: a text or a missing value gives NaN, so 0
AmountOf(cell) ==
    CASE "num" \in DOMAIN cell -> 100 * cell.num
      [] "hundredths" \in DOMAIN cell -> cell.hundredths
      [] OTHER -> 0

\* rows.reduce((sum, t) => sum + (Number(t.total_amount) || 0), 0)
RECURSIVE SumAmounts(_)
SumAmounts(rows) ==
    IF rows = <<>> THEN 0
    ELSE AmountOf(Field(Head(rows), "total_amount")) + SumAmounts(Tail(rows))

\* new Date(row.transaction_date).getTime(), for a date held as a number
Timestamp(row) == Field(row, "transaction_date").num

\* the place of a row in front of an already sorted tail: behind the rows
\* with a later date, in front of the others (Array.prototype.sort is stable)
RECURSIVE InsertByDate(_, _)
InsertByDate(row, sorted) ==
    IF sorted # <<>> /\ Timestamp(Head(sorted)) > Timestamp(row)
    THEN <<Head(sorted)>> \o InsertByDate(row, Tail(sorted))
    ELSE <<row>> \o sorted

\* variant: the comparator is a - b, the oldest transaction comes first
RECURSIVE SortByDateAscending(_)
SortByDateAscending(rows) ==
    IF rows = <<>> THEN <<>>
    ELSE LET rest == SortByDateAscending(Tail(rows))
             before == SelectSeq(rest, LAMBDA r : Timestamp(r) < Timestamp(Head(rows)))
             after == SelectSeq(rest, LAMBDA r : Timestamp(r) >= Timestamp(Head(rows)))
         IN  before \o <<Head(rows)>> \o after

\* transactions.sort((a, b) => date(b) - date(a))
RECURSIVE SortByDateDescending(_)
SortByDateDescending(rows) ==
    IF rows = <<>> THEN <<>>
    ELSE InsertByDate(Head(rows), SortByDateDescending(Tail(rows)))

\* variant: Math.floor in place of Math.round
RoundDown(n, d) == n \div d

\* Math.round(n / d) for d > 0: the nearest integer, a half goes up
Round(n, d) == (2 * n + d) \div (2 * d)

\* the KPIData object: total_sales in whole units, avg_basket_size and
\* growth_rate in hundredths (Math.round(x * 100) / 100)
KPIData(transactions) ==
    LET totalSales == SumAmounts(transactions)
        transactionCount == Len(transactions)
        sortedTransactions == SortByDateDescending(transactions)
        half == Len(sortedTransactions) \div 2
        recentRevenue == SumAmounts(SubSeq(sortedTransactions, 1, half))
        olderRevenue ==
            SumAmounts(SubSeq(sortedTransactions, half + 1, Len(sortedTransactions)))
    IN  [total_sales |-> Round(totalSales, 100),
         transaction_count |-> transactionCount,
         avg_basket_size |-> Round(totalSales, transactionCount),
         growth_rate |-> IF olderRevenue > 0
                         THEN Round(10000 * (recentRevenue - olderRevenue), olderRevenue)
                         ELSE 0]

NoData == "No transaction data available"

\* what calculateKPIMetrics settles with
KPIMetrics(lake, failed) ==
    LET data == TransactionData(lake, failed)
    IN  IF data.status = "rejected" THEN Rejected("calculateKPIMetrics", data.error)
        ELSE IF Len(data.value) = 0 THEN Rejected("calculateKPIMetrics", NoData)
        ELSE Resolved("calculateKPIMetrics", KPIData(data.value))

\* variant: the sort is applied to the rows fetchCSV handed out of the cache
SortedInPlaceFetched == "transactions.csv"

\* the array that transactions.sort(...) reorders in place: the list that
\* getTransactionData built with transactions.map(...), a new array, not
\* one of the arrays that fetchCSV keeps in the cache
SortedInPlace == "enrichedTransactions"

\* the cached tables after the in-place sort
TablesAfterSort(lake) ==
    IF SortedInPlace \in DOMAIN lake
    THEN [lake EXCEPT ![SortedInPlace] = SortByDateDescending(@)]
    ELSE lake

CalculateKPIMetrics(failed) ==
    /\ answer' = KPIMetrics(tables, failed)
    /\ tables' = IF KPIMetrics(tables, failed).status = "resolved"
                 THEN TablesAfterSort(tables)
                 ELSE tables
    /\ UNCHANGED <<cacheVars, orchVars, filterVars, parseVars>>

----------------------------------------------------------------------------
(* getProductPerformance and getCustomerBehavior (dataLakeService.ts)      *)

\* the values of a sequence in the order of their first occurrence: the
\* insertion order of the keys of a Map
FirstOccurrences(q) ==
    LET firsts == SelectSeq([i \in 1..Len(q) |-> i],
                            LAMBDA i : \A j \in 1..(i - 1) : q[j] # q[i])
    IN  [p \in 1..Len(firsts) |-> q[firsts[p]]]

\* rows.reduce((sum, r) => sum + (Number(r[column]) || 0), 0), in hundredths
RECURSIVE SumColumn(_, _)
SumColumn(rows, column) ==
    IF rows = <<>> THEN 0
    ELSE AmountOf(Field(Head(rows), column)) + SumColumn(Tail(rows), column)

\* const product = productMap.get(item.product_id)
ProductOf(item, lake) == MapGet(lake["products.csv"], "product_id", Field(item, "product_id"))

\* variant: the item rows of unknown products are added to every entry
ProductEntryWithUnknown(key, lake) ==
    LET product == MapGet(lake["products.csv"], "product_id", key)
        sold == SelectSeq(lake["transaction_items.csv"],
                          LAMBDA item : \/ ProductOf(item, lake) = JsUndefined
                                        \/ Field(ProductOf(item, lake), "product_id") = key)
    IN  [product_id |-> Field(product, "product_id"),
         product_name |-> Field(product, "product_name"),
         category |-> Field(product, "category"),
         brand |-> MapGet(lake["brands.csv"], "brand_id", Field(product, "brand_id")),
         total_revenue |-> SumColumn(sold, "line_total"),
         total_quantity |-> SumColumn(sold, "quantity"),
         transaction_count |-> Len(sold)]

\* the entry of productPerformance for one product; brand stays undefined
\* when the brands table has no row for the product; the totals are in
\* hundredths
ProductEntry(key, lake) ==
    LET product == MapGet(lake["products.csv"], "product_id", key)
        sold == SelectSeq(lake["transaction_items.csv"],
                          LAMBDA item : /\ ProductOf(item, lake) # JsUndefined
                                        /\ Field(ProductOf(item, lake), "product_id") = key)
    IN  [product_id |-> Field(product, "product_id"),
         product_name |-> Field(product, "product_name"),
         category |-> Field(product, "category"),
         brand |-> MapGet(lake["brands.csv"], "brand_id", Field(product, "brand_id")),
         total_revenue |-> SumColumn(sold, "line_total"),
         total_quantity |-> SumColumn(sold, "quantity"),
         transaction_count |-> Len(sold)]

\* entries.sort((a, b) => b.total_revenue - a.total_revenue): the sort is
\* stable, so an entry comes after exactly the entries of greater revenue
\* and the earlier entries of equal revenue
SortByRevenueDescending(entries) ==
    LET revenue == [i \in 1..Len(entries) |-> entries[i].total_revenue]
        place == [i \in 1..Len(entries) |->
                     1 + Cardinality({j \in 1..Len(entries) :
                            \/ revenue[j] > revenue[i]
                            \/ revenue[j] = revenue[i] /\ j < i})]
    IN  [p \in 1..Len(entries) |->
            entries[CHOOSE i \in 1..Len(entries) : place[i] = p]]

TopProducts == 50

\* the ranking without the slice(0, 50)
ProductRankingUncut(lake) ==
    LET known == SelectSeq(lake["transaction_items.csv"],
                           LAMBDA item : ProductOf(item, lake) # JsUndefined)
        keys == FirstOccurrences([i \in 1..Len(known) |->
                                     Field(ProductOf(known[i], lake), "product_id")])
    IN  SortByRevenueDescending([i \in 1..Len(keys) |-> ProductEntry(keys[i], lake)])

\* Array.from(productPerformance.values()).sort(...).slice(0, 50); an item
\* whose product is unknown is skipped
ProductRanking(lake) ==
    LET known == SelectSeq(lake["transaction_items.csv"],
                           LAMBDA item : ProductOf(item, lake) # JsUndefined)
        keys == FirstOccurrences([i \in 1..Len(known) |->
                                     Field(ProductOf(known[i], lake), "product_id")])
        sorted == SortByRevenueDescending([i \in 1..Len(keys) |->
                                              ProductEntry(keys[i], lake)])
    IN  SubSeq(sorted, 1, IF Len(sorted) < TopProducts THEN Len(sorted) ELSE TopProducts)

\* what getProductPerformance settles with
ProductPerformance(lake, failed) ==
    IF failed # {} THEN Rejected("getProductPerformance", FetchError)
    ELSE Resolved("getProductPerformance", ProductRanking(lake))

GetProductPerformance(failed) ==
    /\ answer' = ProductPerformance(tables, failed)
    /\ UNCHANGED tables
    /\ UNCHANGED <<cacheVars, orchVars, filterVars, parseVars>>

\* Math.round(0 / 0)
JsNaN == [type |-> "NaN"]

\* the entry of customerSpend for one customer_id: the spend in hundredths
\* and the customer object of the first transaction with that id
SpendEntry(key, transactions) ==
    LET own == SelectSeq(transactions, LAMBDA t : Field(t, "customer_id") = key)
    IN  [totalSpend |-> SumAmounts(own), transactionCount |-> Len(own),
         customer |-> Field(Head(own), "customer")]

SegmentNames == <<"Premium Buyers", "Regular Customers", "Occasional Shoppers">>

\* the segment test with the Premium boundary taken inclusively
InSegmentInclusive(segment, spend, total, n) ==
    CASE segment = "Premium Buyers" -> spend * n >= 2 * total
      [] segment = "Regular Customers" -> spend * n > total /\ spend * n <= 2 * total
      [] OTHER -> spend * n <= total

\* the segment test for a customer among n whose spends sum to total: the
\* comparisons with avgSpend = total / n, multiplied through by n
InSegment(segment, spend, total, n) ==
    CASE segment = "Premium Buyers" -> spend * n > 2 * total
      [] segment = "Regular Customers" -> spend * n > total /\ spend * n <= 2 * total
      [] OTHER -> spend * n <= total

\* the object getCustomerBehavior returns: percentage and avgSpend rounded
\* to whole numbers, the avgSpend of a segment without members being 0 / 0
CustomerSegments(transactions) ==
    LET keys == FirstOccurrences([i \in 1..Len(transactions) |->
                                     Field(transactions[i], "customer_id")])
        customers == [i \in 1..Len(keys) |-> SpendEntry(keys[i], transactions)]
        totalCustomers == Len(customers)
        total == SumAmounts(transactions)
        members(segment) ==
            SelectSeq(customers,
                      LAMBDA c : InSegment(segment, c.totalSpend, total, totalCustomers))
        spent(q) == SumAmounts([i \in 1..Len(q) |->
                                   [total_amount |-> DecimalCell(q[i].totalSpend)]])
    IN  [segments |->
            [i \in 1..Len(SegmentNames) |->
                LET count == Len(members(SegmentNames[i]))
                IN  [segment |-> SegmentNames[i],
                     percentage |-> Round(100 * count, totalCustomers),
                     avgSpend |-> IF count = 0 THEN JsNaN
                                  ELSE Round(spent(members(SegmentNames[i])),
                                             100 * count)]],
         totalCustomers |-> totalCustomers,
         avgSpend |-> Round(total, 100 * totalCustomers)]

\* what getCustomerBehavior settles with
CustomerBehavior(lake, failed) ==
    LET data == TransactionData(lake, failed)
    IN  IF data.status = "rejected" THEN Rejected("getCustomerBehavior", data.error)
        ELSE IF Len(data.value) = 0 THEN Rejected("getCustomerBehavior", NoData)
        ELSE Resolved("getCustomerBehavior", CustomerSegments(data.value))

GetCustomerBehavior(failed) ==
    /\ answer' = CustomerBehavior(tables, failed)
    /\ UNCHANGED tables
    /\ UNCHANGED <<cacheVars, orchVars, filterVars, parseVars>>

----------------------------------------------------------------------------
(* Specifications                                                          *)

InitService ==
    /\ cache = [k \in CacheKeys |-> Absent]
    /\ now = 0
    /\ fetch = [c \in Fetchers |-> IdleFetch]
    /\ lastStored = [f \in Files |-> NoCall]
    /\ lastDone = [f \in Files |-> Never]
    /\ consecutiveFailures = 0
    /\ useMockFallback = FALSE
    /\ mode = "Primary"
    /\ query = [q \in Queries |-> IdleQuery]
    /\ rc = IdleReconnect
    /\ seen = [useMockFallback |-> FALSE, cause |-> "initial"]
    /\ flagCause = "initial"
    /\ store = InitialStore
    /\ lastOp = [op |-> "none", nulled |-> FALSE]
    /\ answer = NoAnswer
    /\ parsed = NoParse

\* the storage account holds no table
Init ==
    /\ InitService
    /\ tables = Lake(<<>>, <<>>, <<>>, <<>>, <<>>, <<>>)
    /\ blobText = EmptyText

\* the storage account holds one of the lakes
InitLake == InitService /\ tables \in Lakes /\ blobText = EmptyText

\* parseCSV is handed one of the texts
InitParse ==
    /\ InitService
    /\ tables = Lake(<<>>, <<>>, <<>>, <<>>, <<>>, <<>>)
    /\ blobText \in CsvTexts

NextCache ==
    \/ \E c \in Fetchers, f \in Files : FetchCSVCall(c, f)
    \/ \E c \in Fetchers, blob \in Blobs : FetchCSVResponse(c, blob)
    \/ \E c \in Fetchers : FetchCSVError(c)
    \/ ClearCache
    \/ \E d \in ClockSteps : Tick(d)

SpecCache == Init /\ [][NextCache]_vars

NextOrch ==
    \/ \E q \in Queries : QueryCall(q)
    \/ \E q \in Queries : PrimarySuccess(q)
    \/ \E q \in Queries, class \in ErrorClasses : PrimaryRetry(q, class)
    \/ \E q \in Queries, class \in ErrorClasses : PrimaryFailure(q, class)
    \/ \E q \in Queries : LakeSuccess(q)
    \/ \E q \in Queries : LakeFailure(q)
    \/ ReconnectCall
    \/ \E class \in ProbeErrorClasses : ProbeRetry(class)
    \/ ProbeSuccess
    \/ \E class \in ProbeErrorClasses : ProbeFailure(class)
    \/ GetServiceStatus

SpecOrch == Init /\ [][NextOrch]_vars

NextFilter ==
    \/ \E key \in SetKeys : \E value \in FilterValues(key) : SetFilter(key, value)
    \/ ClearFilters
    \/ \E level \in Elements(geographyLevels) : ClearGeographyFromLevel(level)
    \/ \E level \in Elements(organizationLevels) : ClearOrganizationFromLevel(level)

SpecFilter == Init /\ [][NextFilter]_vars

NextLake ==
    \/ \E failed \in Failures("getTransactionData") : GetTransactionData(failed)
    \/ \E failed \in Failures("calculateKPIMetrics") : CalculateKPIMetrics(failed)
    \/ \E failed \in Failures("getProductPerformance") : GetProductPerformance(failed)
    \/ \E failed \in Failures("getCustomerBehavior") : GetCustomerBehavior(failed)

SpecLake == InitLake /\ [][NextLake]_vars

NextGuarded ==
    \/ \E key \in SetKeys : \E value \in FilterValues(key) : GuardedSetFilter(key, value)
    \/ ClearFilters

SpecGuarded == Init /\ [][NextGuarded]_vars

NextFanOut ==
    \/ FanOutCall
    \/ \E c \in Fetchers, blob \in Blobs : FetchCSVResponse(c, blob)
    \/ \E c \in Fetchers : FetchCSVError(c)
    \/ ClearCache
    \/ \E d \in ClockSteps : Tick(d)

SpecFanOut == Init /\ [][NextFanOut]_vars

NextParse == ParseCSVCall

SpecParse == InitParse /\ [][NextParse]_vars

----------------------------------------------------------------------------
(* Properties of the result cache and fetchCSV (SpecCache)                 *)

FetchTtl == FetchTtlMinutes * MsPerMinute

\* this step is invocation slot c starting fetchCSV
CallStep(c) == fetch[c].pc # "awaiting" /\ fetch'[c] # fetch[c]

\* C1: a fetchCSV that finds an entry for its key gets the stored rows and
\* leaves the entry in place when the entry is younger than its TTL; when the
\* entry's age is at least the TTL it gets nothing from the cache (the request
\* goes out) and that same lookup removes the entry from the map.
C1_CacheValidity ==
    [][\A c \in Fetchers :
        CallStep(c) =>
            LET k == CacheKey(fetch'[c].file)
                e == cache[k]
            IN  e # Absent =>
                    IF now - e.timestamp < e.ttl
                    THEN /\ fetch'[c].pc = "returned"
                         /\ fetch'[c].result = JsArray(e.data)
                         /\ cache'[k] = e
                    ELSE /\ fetch'[c].pc = "awaiting"
                         /\ fetch'[c].result = JsNull
                         /\ cache'[k] = Absent]_vars

\* an entry stored at least a TTL ago was looked up: it is gone from the map
\* and the lookup's call is waiting for the network
C1_Witness ==
    \E c \in Fetchers :
        /\ fetch[c].pc = "awaiting"
        /\ lastStored[fetch[c].file] # NoCall
        /\ now - lastStored[fetch[c].file].at >= FetchTtl
        /\ cache[CacheKey(fetch[c].file)] = Absent

\* C2 (as claimed): a fetchCSV that starts less than 15 minutes after an
\* earlier fetchCSV for the same file returned rows, with no cache write or
\* clearCache in between, returns the same rows without a network request.
C2_AsClaimed ==
    [][\A c \in Fetchers :
        CallStep(c) =>
            LET f == fetch'[c].file
            IN  (lastDone[f] # Never /\ now - lastDone[f] < FetchTtl) =>
                    /\ fetch'[c].pc = "returned"
                    /\ ~fetch'[c].issued
                    /\ fetch'[c].result = JsArray(lastStored[f].data)]_vars

\* C2 (amended): a fetchCSV that starts less than 15 minutes after an earlier
\* fetchCSV for the same file fetched and stored its rows, with no cache write
\* or clearCache in between, returns rows equal to the stored ones, the empty
\* table included, without a network request.
C2_CacheIdempotence ==
    [][\A c \in Fetchers :
        CallStep(c) =>
            LET f == fetch'[c].file
            IN  (lastStored[f] # NoCall /\ now - lastStored[f].at < FetchTtl) =>
                    /\ fetch'[c].pc = "returned"
                    /\ ~fetch'[c].issued
                    /\ fetch'[c].result = JsArray(lastStored[f].data)]_vars

\* a call was answered from the cache with the empty table, some time after
\* the table was stored
C2_Witness ==
    \E c \in Fetchers :
        /\ fetch[c].pc = "returned"
        /\ ~fetch[c].issued
        /\ fetch[c].result = JsArray(<<>>)
        /\ lastStored[fetch[c].file] # NoCall
        /\ lastStored[fetch[c].file].at < now
        /\ lastDone[fetch[c].file] = now

\* C3: a fetchCSV that starts while another fetchCSV for the same file is
\* waiting for its response, and while the cache holds no valid entry for the
\* file, sends a network request of its own and leaves the other one running.
C3_DuplicateFetch ==
    [][\A c \in Fetchers : \A d \in Fetchers \ {c} :
        (/\ CallStep(c)
         /\ fetch[d].pc = "awaiting"
         /\ fetch[d].file = fetch'[c].file
         /\ ~EntryValid(cache[CacheKey(fetch'[c].file)], now))
        => /\ fetch'[c].pc = "awaiting"
           /\ fetch'[c].issued
           /\ fetch'[d] = fetch[d]]_vars

\* two requests for one cache key are in flight at once
C3_Witness ==
    \E c, d \in Fetchers :
        /\ c # d
        /\ fetch[c].pc = "awaiting" /\ fetch[c].issued
        /\ fetch[d].pc = "awaiting" /\ fetch[d].issued
        /\ fetch[c].file = fetch[d].file

----------------------------------------------------------------------------
(* Properties of the source orchestrator (SpecOrch)                        *)

\* this step is the primary call of query q failing for good
PrimaryFailed(q) ==
    /\ query[q].pc = "primary"
    /\ query'[q].pc # "primary"
    /\ query'[q].answer # "remote"

\* the classification of the failure of a PrimaryFailed(q) step
FailureClass(q) ==
    IF query'[q].pc = "lake" THEN query'[q].err ELSE query'[q].answer

\* this step is a primary call (of a query, or the reconnect probe) succeeding
PrimarySucceeded ==
    \/ \E q \in Queries : query[q].pc = "primary" /\ query'[q].answer = "remote"
    \/ rc.pc = "probing" /\ rc'.pc = "returned" /\ rc'.err = "none"

\* this step is the reconnect probe failing
ProbeFailed == rc.pc = "probing" /\ rc'.pc = "returned" /\ rc'.err # "none"

\* C4: a failed primary call that brings the consecutive-failure counter to 3
\* (or beyond), or that is of fatal class, leaves the status with a
\* currentDataSource other than "azure-api"; every successful primary call
\* leaves currentDataSource = "azure-api" and consecutiveFailures = 0.
C4_ModeTransition ==
    [][/\ \A q \in Queries :
            (PrimaryFailed(q) /\ (consecutiveFailures' >= 3
                                    \/ FailureClass(q) \in {"NetworkError", "ServerError"}))
            => ServiceStatus'.currentDataSource # "azure-api"
       /\ PrimarySucceeded =>
            /\ ServiceStatus'.currentDataSource = "azure-api"
            /\ ServiceStatus'.consecutiveFailures = 0]_vars

\* the third consecutive failure, not of fatal class, has switched the source
C4_Witness ==
    \E q \in Queries :
        /\ query[q].pc = "lake"
        /\ query[q].err \in {"AuthError", "ParseError", "EmptyResultError"}
        /\ consecutiveFailures = 3
        /\ ServiceStatus.currentDataSource = "data-lake"

\* C5 (as claimed): the sticky flag goes from false to true only in a step
\* that is a failed primary call (a query's, or the reconnect probe) after
\* which the counter is at least 3 or whose failure is of fatal class.
C5_AsClaimed ==
    [][(~useMockFallback /\ useMockFallback') =>
        \/ \E q \in Queries :
              /\ PrimaryFailed(q)
              /\ \/ consecutiveFailures' >= 3
                 \/ FailureClass(q) \in {"NetworkError", "ServerError"}
        \/ /\ ProbeFailed
           /\ \/ consecutiveFailures' >= 3
              \/ rc'.err \in {"NetworkError", "ServerError"}]_vars

\* C6 (as claimed): a status read that observes the sticky flag false is taken
\* when the flag was never set, or after a primary call or a reconnect probe
\* succeeded; never when only the start of a reconnect() had cleared it.
C6_AsClaimed ==
    ~seen.useMockFallback => seen.cause \in {"initial", "success"}

\* C7: reconnect() has the counter at 0 when it issues its probe, whatever the
\* counter was; it returns true exactly when the probe succeeded; and when the
\* probe failed the sticky flag is true as reconnect() returns.
C7_Reconnect ==
    [][/\ (rc.pc # "probing" /\ rc'.pc = "probing") => consecutiveFailures' = 0
       /\ (rc.pc = "probing" /\ rc'.pc = "returned") =>
            /\ rc'.result = "true" <=> rc'.err = "none"
            /\ rc'.result \in {"true", "false"}
            /\ rc'.err # "none" => useMockFallback']_vars

\* a reconnect() whose probe got a 4xx answer has returned false with the flag set
C7_Witness ==
    /\ rc.pc = "returned"
    /\ rc.result = "false"
    /\ rc.err = "ClientError"
    /\ consecutiveFailures = 1
    /\ useMockFallback

FallbackOrder == <<"remote", "data-lake", "static">>

\* C8: a query whose primary call fails with NetworkError, ServerError,
\* AuthError, ParseError or EmptyResultError is not rejected: it goes on to
\* the data lake and ends with the data-lake answer if that attempt succeeds
\* and with the static answer if it fails; the sources a query has attempted
\* are always an initial part of remote, data lake, static.
C8_FallbackCascade ==
    [][\A q \in Queries :
        /\ (PrimaryFailed(q) /\ query'[q].answer # "ClientError") =>
              /\ query'[q].pc = "lake"
              /\ query'[q].answer = "none"
              /\ query'[q].err \in ErrorClasses
        /\ (query[q].pc = "lake" /\ query'[q].pc # "lake") =>
              /\ query'[q].pc = "done"
              /\ \/ query'[q].answer = "data-lake"
                    /\ query'[q].trace = SubSeq(FallbackOrder, 1, 2)
                 \/ query'[q].answer = "static"
                    /\ query'[q].trace = FallbackOrder
        /\ \E n \in 0..3 : query'[q].trace = SubSeq(FallbackOrder, 1, n)]_vars

\* one query got the static answer after going through all three sources
\* while another one got the data-lake answer
C8_Witness ==
    \E q, r \in Queries :
        /\ query[q].pc = "done" /\ query[q].answer = "static"
        /\ query[q].trace = FallbackOrder
        /\ query[r].pc = "done" /\ query[r].answer = "data-lake"

\* C9 (as claimed): a primary call that fails with a 4xx response ends the
\* query with that ClientError: no data-lake or static attempt follows and
\* the sticky flag keeps its value.
C9_AsClaimed ==
    [][\A q \in Queries :
        (PrimaryFailed(q) /\ FailureClass(q) = "ClientError") =>
            /\ query'[q].pc = "done"
            /\ query'[q].answer = "ClientError"
            /\ query'[q].trace = <<"remote">>
            /\ useMockFallback' = useMockFallback]_vars

\* C10: the step in which the data-lake attempt of a query fails answers the
\* query from the static fallback and changes neither the sticky flag, nor
\* the consecutive-failure counter, nor the status.
C10_LakeFailureFrame ==
    [][\A q \in Queries :
        (query[q].pc = "lake" /\ query'[q].pc # "lake"
            /\ query'[q].answer # "data-lake") =>
            /\ query'[q].pc = "done"
            /\ query'[q].answer = "static"
            /\ useMockFallback' = useMockFallback
            /\ consecutiveFailures' = consecutiveFailures
            /\ ServiceStatus' = ServiceStatus]_vars

\* a query was answered from the static fallback after a single failure that
\* did not set the flag: the flag is still false and the counter still 1
C10_Witness ==
    \E q \in Queries :
        /\ query[q].pc = "done" /\ query[q].answer = "static"
        /\ ~useMockFallback
        /\ consecutiveFailures = 1
        /\ mode = "Primary"
        /\ rc.pc = "idle"

----------------------------------------------------------------------------
(* Properties of the filter store (SpecFilter)                             *)

HierarchyLists == {geographyLevels, organizationLevels}

\* the slots behind the slot of key in its own hierarchy (none for a time field)
LaterSlots(key) ==
    UNION {{list[j] : j \in {i \in 1..Len(list) : \E h \in 1..(i - 1) : list[h] = key}}
           : list \in HierarchyLists}

\* C11: after setFilter(key, value) on a key of the geography or of the
\* organization list, the slot of key holds value and every slot behind it in
\* the same list is null.
C11_FilterCascade ==
    [][\A list \in HierarchyLists : \A i \in 1..Len(list) :
        \A value \in FilterValues(list[i]) :
            SetFilter(list[i], value) =>
                /\ store'[list[i]] = value
                /\ \A j \in (i + 1)..Len(list) : store'[list[j]] = JsNull]_vars

\* a setFilter on city has just emptied a slot behind it
C11_Witness ==
    /\ lastOp = [op |-> "setFilter", nulled |-> TRUE]
    /\ store["region"] # JsNull
    /\ store["city"] # JsNull
    /\ store["municipality"] = JsNull
    /\ store["barangay"] = JsNull
    /\ \A k \in Elements(organizationLevels) : store[k] = JsNull

\* C12: setFilter(key, value) changes no filter field other than key and the
\* slots behind key in its own hierarchy: earlier slots, the other hierarchy
\* and the time fields keep their values, and for a time field nothing but
\* that field changes.
C12_FilterFrame ==
    [][\A key \in SetKeys : \A value \in FilterValues(key) :
        SetFilter(key, value) =>
            \A k \in FilterFields \ ({key} \cup LaterSlots(key)) :
                store'[k] = store[k]]_vars

\* a setFilter has just emptied a geography slot while the whole organization
\* hierarchy and a time field hold values
C12_Witness ==
    /\ lastOp = [op |-> "setFilter", nulled |-> TRUE]
    /\ store["region"] # JsNull
    /\ \A k \in Elements(organizationLevels) : store[k] # JsNull
    /\ \E t \in TimeFields : store[t] # JsNull

\* C13: getActiveFilters() returns the map whose keys are exactly the filter
\* fields that are not null, each with its current value, and that holds
\* none of the store's action functions.
C13_ActiveFilters ==
    LET active == GetActiveFilters(store)
    IN  /\ DOMAIN active = {k \in FilterFields : store[k] # JsNull}
        /\ \A k \in DOMAIN active : active[k] = store[k] /\ active[k] # JsNull
        /\ DOMAIN active \cap ActionNames = {}

\* two of the fields hold a value, the others are null
C13_Witness ==
    /\ DOMAIN GetActiveFilters(store) = {"city", "day"}
    /\ store["region"] = JsNull

\* C14: after clearFilters() every filter field is null and getActiveFilters()
\* returns the empty map.
C14_ClearAll ==
    [][ClearFilters =>
        /\ \A k \in FilterFields : store'[k] = JsNull
        /\ DOMAIN GetActiveFilters(store') = {}]_vars

\* clearFilters() has just emptied slots that held values
C14_Witness ==
    /\ lastOp = [op |-> "clearFilters", nulled |-> TRUE]
    /\ \A k \in FilterFields : store[k] = JsNull

----------------------------------------------------------------------------
(* Properties of the data-lake tables and queries                          *)

\* the texts with fewer than two lines: the empty text, a header line only
ShortBlobs == {blob \in Blobs : Len(blob) < 2}

\* C18: a blob text with fewer than two lines parses to zero rows, and the
\* fetchCSV that receives it resolves with the empty table (and stores it)
\* instead of rejecting.
C18_EmptyTables ==
    [][\A c \in Fetchers : \A blob \in ShortBlobs :
        FetchCSVResponse(c, blob) =>
            /\ ParseCSV(blob) = <<>>
            /\ fetch'[c].pc = "returned"
            /\ fetch'[c].result = JsArray(<<>>)]_vars

\* a fetchCSV that went to the network has resolved with the empty table
C18_Witness ==
    \E c \in Fetchers :
        /\ fetch[c].pc = "returned"
        /\ fetch[c].issued
        /\ fetch[c].result = JsArray(<<>>)
        /\ lastStored[fetch[c].file] = [at |-> now, data |-> <<>>]
\* the outcome of the last query, when it resolved
ResolvedBy(op) == answer.op = op /\ answer.status = "resolved"

\* an enriched item without the product the join attached
WithoutProduct(item) == [k \in DOMAIN item \ {"product"} |-> item[k]]

\* the table has a row with that key
HasRow(rows, key, value) == \E i \in 1..Len(rows) : Field(rows[i], key) = value

\* C15: every transaction T that getTransactionData returns carries exactly
\* the item rows whose transaction_id equals T's: none of another
\* transaction, none missing, and the empty list when no item row matches.
C15_JoinItems ==
    ResolvedBy("getTransactionData") =>
        LET items == tables["transaction_items.csv"]
        IN  /\ Len(answer.value) = Len(tables["transactions.csv"])
            /\ \A i \in 1..Len(answer.value) :
                LET T == answer.value[i]
                    matching == {j \in 1..Len(items) :
                                    Field(items[j], "transaction_id")
                                        = Field(T, "transaction_id")}
                IN  /\ Len(T["items"]) = Cardinality(matching)
                    /\ \A j \in matching : \E k \in 1..Len(T["items"]) :
                            WithoutProduct(T["items"][k]) = items[j]
                    /\ \A k \in 1..Len(T["items"]) : \E j \in matching :
                            WithoutProduct(T["items"][k]) = items[j]

\* of two item rows one belongs to a returned transaction, the other to
\* none of them, and a returned transaction has no item at all
C15_Witness ==
    /\ ResolvedBy("getTransactionData")
    /\ Len(tables["transaction_items.csv"]) = 2
    /\ \E i, j \in 1..Len(answer.value) :
        /\ Len(answer.value[i]["items"]) = 1
        /\ Len(answer.value[j]["items"]) = 0
    /\ \A i \in 1..Len(answer.value) : Len(answer.value[i]["items"]) <= 1

\* C16: a transaction whose customer_id (store_id) has no row in the
\* customers (stores) table gets customer = null (store = null), an item
\* whose product_id has no row in the products table gets product = null,
\* and the join still returns one enriched record per transaction row.
C16_MissingDimensions ==
    ResolvedBy("getTransactionData") =>
        LET transactions == tables["transactions.csv"]
        IN  /\ Len(answer.value) = Len(transactions)
            /\ \A i \in 1..Len(answer.value) :
                LET T == answer.value[i]
                IN  /\ \A c \in DOMAIN transactions[i] : T[c] = transactions[i][c]
                    /\ ~HasRow(tables["customers.csv"], "customer_id",
                               Field(T, "customer_id")) => T["customer"] = JsNull
                    /\ ~HasRow(tables["stores.csv"], "store_id",
                               Field(T, "store_id")) => T["store"] = JsNull
                    /\ \A k \in 1..Len(T["items"]) :
                        ~HasRow(tables["products.csv"], "product_id",
                                Field(T["items"][k], "product_id"))
                            => T["items"][k]["product"] = JsNull

\* two transactions come back, one without customer and store but with a
\* customer table that knows the other one, and an item without product
C16_Witness ==
    /\ ResolvedBy("getTransactionData")
    /\ Len(answer.value) = 2
    /\ \E i, j \in 1..2 :
        /\ answer.value[i]["customer"] = JsNull
        /\ answer.value[i]["store"] = JsNull
        /\ answer.value[j]["customer"] # JsNull
        /\ \E k \in 1..Len(answer.value[j]["items"]) :
              answer.value[j]["items"][k]["product"] = JsNull

\* the queries whose answer is a list of rows
ListQueries == {"getTransactionData", "getProductPerformance"}

\* C17 (as claimed): each data-lake query is rejected as a whole whenever the
\* fetch of one of its tables fails, and also whenever its join or
\* aggregation has no usable row.
C17_AsClaimed ==
    [][/\ \A failed \in Failures("getTransactionData") \ {{}} :
            GetTransactionData(failed) => answer'.status = "rejected"
       /\ \A failed \in Failures("calculateKPIMetrics") \ {{}} :
            CalculateKPIMetrics(failed) => answer'.status = "rejected"
       /\ \A failed \in Failures("getProductPerformance") \ {{}} :
            GetProductPerformance(failed) => answer'.status = "rejected"
       /\ \A failed \in Failures("getCustomerBehavior") \ {{}} :
            GetCustomerBehavior(failed) => answer'.status = "rejected"
       /\ (answer'.status = "resolved" /\ answer'.op \in ListQueries)
            => Len(answer'.value) > 0
       /\ (answer'.status = "resolved" /\ answer'.op \notin ListQueries)
            => Len(tables["transactions.csv"]) > 0]_vars

\* the amount of a transaction in hundredths; a row without a numeric
\* amount adds nothing to a sum
AmountInHundredths(t) ==
    LET a == Field(t, "total_amount")
    IN  IF "num" \in DOMAIN a THEN 100 * a.num
        ELSE IF "hundredths" \in DOMAIN a THEN a.hundredths
        ELSE 0

RECURSIVE SumOfFirst(_, _)
SumOfFirst(rows, n) ==
    IF n = 0 THEN 0 ELSE AmountInHundredths(rows[n]) + SumOfFirst(rows, n - 1)

\* a is the integer nearest to n / d (d > 0), a half counting upwards
Nearest(a, n, d) == 2 * d * a - d <= 2 * n /\ 2 * n < 2 * d * a + d

\* C19 (as claimed): total_sales is the sum of all transaction amounts,
\* transaction_count the number of rows and avg_basket_size the sum divided
\* by the count, rounded to 2 decimals.
C19_AsClaimed ==
    ResolvedBy("calculateKPIMetrics") =>
        LET rows == tables["transactions.csv"]
            sum == SumOfFirst(rows, Len(rows))
        IN  /\ 100 * answer.value.total_sales = sum
            /\ answer.value.transaction_count = Len(rows)
            /\ Nearest(answer.value.avg_basket_size, sum, Len(rows))

\* C19: total_sales is the sum of all transaction amounts (a missing or
\* non-numeric amount counting as 0) rounded to the nearest integer,
\* transaction_count is the number of rows and avg_basket_size is the
\* unrounded sum divided by the count, rounded to 2 decimals.
C19_KpiTotals ==
    ResolvedBy("calculateKPIMetrics") =>
        LET rows == tables["transactions.csv"]
            sum == SumOfFirst(rows, Len(rows))
        IN  /\ Nearest(answer.value.total_sales, sum, 100)
            /\ answer.value.transaction_count = Len(rows)
            /\ Nearest(answer.value.avg_basket_size, sum, Len(rows))

\* amounts 100, 200, 300, 400 give 1000, 4 and 250.00
C19_Witness ==
    /\ ResolvedBy("calculateKPIMetrics")
    /\ {Field(tables["transactions.csv"][i], "total_amount")
            : i \in 1..Len(tables["transactions.csv"])}
         = {NumberCell(100), NumberCell(200), NumberCell(300), NumberCell(400)}
    /\ answer.value.total_sales = 1000
    /\ answer.value.transaction_count = 4
    /\ answer.value.avg_basket_size = 25000

IsDescending(rows) ==
    \A i \in 1..(Len(rows) - 1) : Timestamp(rows[i]) >= Timestamp(rows[i + 1])

\* the same rows, each as often
SameRows(a, b) ==
    /\ Len(a) = Len(b)
    /\ \A i \in 1..Len(a) :
        Cardinality({j \in 1..Len(a) : a[j] = a[i]})
            = Cardinality({j \in 1..Len(b) : b[j] = a[i]})

\* a is (recent - older) / older * 100, rounded to 2 decimals, in hundredths
GrowthOf(a, recent, older) ==
    IF older > 0 THEN Nearest(a, 10000 * (recent - older), older)
    ELSE Nearest(a, 10000 * (older - recent), 0 - older)

\* C20 (as claimed): for every list of n >= 1 transactions, ordered by
\* timestamp descending, the list splits into a recent first half and an
\* older second half of equal size, and growth_rate is (recentSum -
\* olderSum) / olderSum * 100 rounded to 2 decimals, or 0 when olderSum is 0.
C20_AsClaimed ==
    ResolvedBy("calculateKPIMetrics") =>
        LET rows == EnrichedTransactions(tables)
            sorted == SortByDateDescending(rows)
            n == Len(sorted)
        IN  /\ IsDescending(sorted) /\ SameRows(sorted, rows)
            /\ \E k \in 0..n :
                /\ k = n - k
                /\ LET recent == SumOfFirst(sorted, k)
                       older == SumOfFirst(sorted, n) - recent
                   IN  IF older = 0 THEN answer.value.growth_rate = 0
                       ELSE GrowthOf(answer.value.growth_rate, recent, older)

\* C20: for every list of n >= 1 transactions, ordered by timestamp
\* descending, the first floor(n / 2) transactions are the recent part and
\* the remaining ones the older part (equal sizes when n is even), and
\* growth_rate is (recentSum - olderSum) / olderSum * 100 rounded to 2
\* decimals, or 0 when olderSum is not positive.
C20_GrowthRate ==
    ResolvedBy("calculateKPIMetrics") =>
        LET rows == EnrichedTransactions(tables)
            sorted == SortByDateDescending(rows)
            n == Len(sorted)
            recent == SumOfFirst(sorted, n \div 2)
            older == SumOfFirst(sorted, n) - recent
        IN  /\ IsDescending(sorted) /\ SameRows(sorted, rows)
            /\ IF older > 0 THEN GrowthOf(answer.value.growth_rate, recent, older)
               ELSE answer.value.growth_rate = 0

\* amounts 100, 200, 300, 400 with increasing timestamps give 133.33
C20_Witness ==
    /\ ResolvedBy("calculateKPIMetrics")
    /\ Len(tables["transactions.csv"]) = 4
    /\ \A i \in 1..4 :
        /\ Field(tables["transactions.csv"][i], "total_amount") = NumberCell(100 * i)
        /\ Timestamp(tables["transactions.csv"][i]) = i
    /\ answer.value.growth_rate = 13333

\* the customer identifiers of a transactions table
CustomerIds(rows) == {Field(rows[i], "customer_id") : i \in 1..Len(rows)}

\* the total spend of one customer, in hundredths
SpendOf(rows, id) ==
    LET own == SelectSeq(rows, LAMBDA t : Field(t, "customer_id") = id)
    IN  SumOfFirst(own, Len(own))

\* the entry of the segment report with that name
SegmentEntry(name) ==
    CHOOSE s \in {answer.value.segments[i] : i \in DOMAIN answer.value.segments} :
        s.segment = name

\* the customers the documented rule puts in each segment, avg being
\* total / n: the comparisons are multiplied through by n
PremiumCustomers(rows) ==
    LET n == Cardinality(CustomerIds(rows))
    IN  {c \in CustomerIds(rows) : n * SpendOf(rows, c) > 2 * SumOfFirst(rows, Len(rows))}

RegularCustomers(rows) ==
    LET n == Cardinality(CustomerIds(rows))
        total == SumOfFirst(rows, Len(rows))
    IN  {c \in CustomerIds(rows) :
            n * SpendOf(rows, c) > total /\ n * SpendOf(rows, c) <= 2 * total}

OccasionalCustomers(rows) ==
    LET n == Cardinality(CustomerIds(rows))
    IN  {c \in CustomerIds(rows) : n * SpendOf(rows, c) <= SumOfFirst(rows, Len(rows))}

\* the report counts exactly the customers of the three sets: with at most
\* 100 customers a share, rounded to a whole percentage, fixes its count
CountsAsDocumented(rows) ==
    LET n == Cardinality(CustomerIds(rows))
    IN  /\ answer.value.totalCustomers = n
        /\ Nearest(SegmentEntry("Premium Buyers").percentage,
                   100 * Cardinality(PremiumCustomers(rows)), n)
        /\ Nearest(SegmentEntry("Regular Customers").percentage,
                   100 * Cardinality(RegularCustomers(rows)), n)
        /\ Nearest(SegmentEntry("Occasional Shoppers").percentage,
                   100 * Cardinality(OccasionalCustomers(rows)), n)

\* every customer is in exactly one of the three sets
SegmentsPartition(rows) ==
    /\ \A c \in CustomerIds(rows) :
        Cardinality({s \in 1..3 :
            c \in <<PremiumCustomers(rows), RegularCustomers(rows),
                    OccasionalCustomers(rows)>>[s]}) = 1
    /\ Cardinality(PremiumCustomers(rows)) + Cardinality(RegularCustomers(rows))
         + Cardinality(OccasionalCustomers(rows)) = Cardinality(CustomerIds(rows))

\* C21 (as claimed): getCustomerBehavior counts a customer as Premium iff
\* spend > 2 x avg, Regular iff avg < spend <= 2 x avg, Occasional iff
\* spend <= avg, so a customer exactly at avg is Occasional and one exactly
\* at 2 x avg is Regular; every customer falls in exactly one segment and
\* the three counts sum to the number of distinct customers.
C21_AsClaimed ==
    ResolvedBy("getCustomerBehavior") =>
        LET rows == tables["transactions.csv"]
            n == Cardinality(CustomerIds(rows))
            total == SumOfFirst(rows, Len(rows))
        IN  /\ CountsAsDocumented(rows)
            /\ \A c \in CustomerIds(rows) :
                /\ n * SpendOf(rows, c) = total => c \in OccasionalCustomers(rows)
                /\ n * SpendOf(rows, c) = 2 * total => c \in RegularCustomers(rows)
            /\ SegmentsPartition(rows)

\* C21: getCustomerBehavior counts a customer as Premium iff spend > 2 x
\* avg, Regular iff avg < spend <= 2 x avg, Occasional iff spend <= avg, so
\* a customer exactly at avg is Occasional and, when avg is positive, one
\* exactly at 2 x avg is Regular; when avg is not negative every customer
\* falls in exactly one segment and the three counts sum to the number of
\* distinct customers, and when avg is negative every customer with
\* 2 x avg < spend <= avg is counted both as Premium and as Occasional.
C21_SegmentBoundaries ==
    ResolvedBy("getCustomerBehavior") =>
        LET rows == tables["transactions.csv"]
            n == Cardinality(CustomerIds(rows))
            total == SumOfFirst(rows, Len(rows))
        IN  /\ CountsAsDocumented(rows)
            /\ \A c \in CustomerIds(rows) :
                /\ n * SpendOf(rows, c) = total => c \in OccasionalCustomers(rows)
                /\ (total > 0 /\ n * SpendOf(rows, c) = 2 * total)
                    => c \in RegularCustomers(rows)
                /\ (total < 0 /\ 2 * total < n * SpendOf(rows, c)
                              /\ n * SpendOf(rows, c) <= total)
                    => c \in PremiumCustomers(rows) \cap OccasionalCustomers(rows)
            /\ total >= 0 => SegmentsPartition(rows)

\* two customers with spends 0 and 300: the average is 150, the second
\* customer sits exactly at 2 x avg and is the one Regular customer
C21_Witness ==
    /\ ResolvedBy("getCustomerBehavior")
    /\ LET rows == tables["transactions.csv"]
       IN  /\ Cardinality(CustomerIds(rows)) = 2
           /\ SumOfFirst(rows, Len(rows)) = 30000
           /\ \E c \in CustomerIds(rows) : SpendOf(rows, c) = 30000
    /\ SegmentEntry("Premium Buyers").percentage = 0
    /\ SegmentEntry("Regular Customers").percentage = 50
    /\ SegmentEntry("Occasional Shoppers").percentage = 50

\* the sum of a numeric column over item rows, in hundredths
RECURSIVE ColumnTotal(_, _)
ColumnTotal(rows, column) ==
    IF rows = <<>> THEN 0
    ELSE 100 * Field(Head(rows), column).num + ColumnTotal(Tail(rows), column)

\* the item rows of one product
ItemRowsOf(lake, id) ==
    SelectSeq(lake["transaction_items.csv"], LAMBDA item : Field(item, "product_id") = id)

\* the identifiers of the products of the products table that have an item row
SoldProducts(lake) ==
    {Field(lake["transaction_items.csv"][i], "product_id")
        : i \in {j \in 1..Len(lake["transaction_items.csv"]) :
                    HasRow(lake["products.csv"], "product_id",
                           Field(lake["transaction_items.csv"][j], "product_id"))}}

\* C22: getProductPerformance returns at most 50 entries, at most one per
\* product identifier, ordered by total_revenue non-increasing; every product
\* left out has total_revenue no greater than that of every product returned,
\* and each entry's total_revenue and total_quantity are the sums of
\* line_total and quantity over the item rows of that product.
C22_ProductRanking ==
    ResolvedBy("getProductPerformance") =>
        LET entries == answer.value
            returned == {entries[i].product_id : i \in 1..Len(entries)}
        IN  /\ Len(entries) <= 50
            /\ \A i, j \in 1..Len(entries) :
                i # j => entries[i].product_id # entries[j].product_id
            /\ \A i \in 1..(Len(entries) - 1) :
                entries[i].total_revenue >= entries[i + 1].total_revenue
            /\ \A id \in SoldProducts(tables) \ returned :
                \A i \in 1..Len(entries) :
                    ColumnTotal(ItemRowsOf(tables, id), "line_total")
                        <= entries[i].total_revenue
            /\ \A i \in 1..Len(entries) :
                /\ entries[i].total_revenue
                     = ColumnTotal(ItemRowsOf(tables, entries[i].product_id), "line_total")
                /\ entries[i].total_quantity
                     = ColumnTotal(ItemRowsOf(tables, entries[i].product_id), "quantity")

\* more than 50 products were sold, with revenues rising in file order: the
\* ranking has 50 entries, led by the last product of the file, and the
\* product left out is one of least revenue
C22_Witness ==
    /\ ResolvedBy("getProductPerformance")
    /\ Cardinality(SoldProducts(tables)) > 50
    /\ Len(answer.value) = 50
    /\ answer.value[1].product_id = NumberCell(MaxProducts)
    /\ answer.value[1].total_revenue = 100 * MaxProducts
    /\ \E id \in SoldProducts(tables) :
        /\ \A i \in 1..50 : answer.value[i].product_id # id
        /\ ColumnTotal(ItemRowsOf(tables, id), "line_total") <= answer.value[50].total_revenue

\* the lines parseCSV splits the text into
LinesOf(text) == TrimText(text)

\* the data lines whose number of cells differs from the number of header
\* columns, by their place after the header line
MismatchedLines(text) ==
    {i \in 1..(Len(LinesOf(text)) - 1) :
        Len(LinesOf(text)[i + 1]) # Len(LinesOf(text)[1])}

\* C23 (as claimed): when a data line of a table has a number of cells
\* different from the number of header columns (fewer or more), parsing that
\* table yields a ParseError instead of rows, so that no row built from a
\* mismatched line reaches the join.
C23_AsClaimed ==
    (parsed # NoParse /\ MismatchedLines(blobText) # {}) => parsed.status # "returned"

\* a cell without the white space around it and without its quote characters
Bare(cell) ==
    LET inner == {i \in 1..Len(cell) : cell[i] # " "}
        core == IF inner = {} THEN <<>>
                ELSE SubSeq(cell, CHOOSE i \in inner : \A j \in inner : i <= j,
                                  CHOOSE i \in inner : \A j \in inner : j <= i)
    IN  SelectSeq(core, LAMBDA ch : ch # "\"")

\* the text is a decimal numeral
IsNumeral(s) == s # <<>> /\ \A i \in 1..Len(s) : s[i] \in {Digits[d] : d \in 1..10}

\* the number a decimal numeral of at most two digits stands for
NumeralValue(s) ==
    LET digit(ch) == CHOOSE d \in 0..9 : Digits[d + 1] = ch
    IN  IF Len(s) = 1 THEN digit(s[1]) ELSE 10 * digit(s[1]) + digit(s[2])

\* the cell of a data line under a header column; a line too short for the
\* column has the empty cell there
CellUnder(line, column) == IF column <= Len(line) THEN Bare(line[column]) ELSE <<>>

\* the last column with that header name
LastColumn(header, name) ==
    CHOOSE j \in 1..Len(header) :
        Bare(header[j]) = name /\ \A k \in (j + 1)..Len(header) : Bare(header[k]) # name

\* C24 (as claimed): for every data row and every header column, parseCSV
\* stores the quote-stripped, trimmed cell as a number if and only if the
\* cell text parses fully as a number, and stores it as the text otherwise;
\* each parsed row has exactly the header's column names as keys.
C24_AsClaimed ==
    parsed # NoParse =>
        LET lines == LinesOf(blobText)
            names == {Bare(lines[1][j]) : j \in 1..Len(lines[1])}
        IN  /\ Len(parsed.rows) = Len(lines) - 1
            /\ \A i \in 1..Len(parsed.rows) :
                /\ DOMAIN parsed.rows[i] = names
                /\ \A name \in names :
                    LET cell == CellUnder(lines[i + 1], LastColumn(lines[1], name))
                    IN  parsed.rows[i][name]
                          = IF IsNumeral(cell) THEN [num |-> NumeralValue(cell)]
                            ELSE [str |-> cell]

\* the customers the documented rule puts in the segment of that name
MembersOf(name, rows) ==
    CASE name = "Premium Buyers" -> PremiumCustomers(rows)
      [] name = "Regular Customers" -> RegularCustomers(rows)
      [] OTHER -> OccasionalCustomers(rows)

\* the total spend of a set of customers, in hundredths
SpendOfAll(rows, members) ==
    LET theirs == SelectSeq(rows, LAMBDA t : Field(t, "customer_id") \in members)
    IN  SumOfFirst(theirs, Len(theirs))

\* C25 (as claimed): for every non-empty transaction list, getCustomerBehavior
\* returns for each of the three segments a well-defined share of customers
\* and a well-defined average spend, the mean total spend of the segment's
\* members (to the nearest whole number), a number also for a segment that
\* has no members.
C25_AsClaimed ==
    ResolvedBy("getCustomerBehavior") =>
        LET rows == tables["transactions.csv"]
        IN  \A k \in 1..Len(SegmentNames) :
                LET entry == SegmentEntry(SegmentNames[k])
                    members == MembersOf(SegmentNames[k], rows)
                IN  /\ Nearest(entry.percentage, 100 * Cardinality(members),
                               Cardinality(CustomerIds(rows)))
                    /\ IF members = {} THEN entry.avgSpend # JsNaN
                       ELSE Nearest(entry.avgSpend, SpendOfAll(rows, members),
                                    100 * Cardinality(members))

\* C26: when a query has issued its table fetches and one of them fails, the
\* join rejects, but the failure changes no other fetch and no cache entry;
\* a fetch still in flight under a rejected join stays in flight until its
\* own response, which stores its rows in the cache under its own key, or
\* its own failure: nothing aborts an issued request.
C26_NoCancellation ==
    [][\A c \in Fetchers :
        /\ (fetch[c].pc = "awaiting" /\ fetch'[c].pc = "thrown")
            => /\ c \in DOMAIN FanOutFiles => JoinStatus' = "rejected"
               /\ \A d \in Fetchers \ {c} : fetch'[d] = fetch[d]
               /\ cache' = cache
        /\ (JoinStatus = "rejected" /\ fetch[c].pc = "awaiting")
            => \/ fetch'[c] = fetch[c]
               \/ fetch'[c] = [fetch[c] EXCEPT !.pc = "thrown"]
               \/ /\ fetch'[c].pc = "returned" /\ fetch'[c].file = fetch[c].file
                  /\ cache'[CacheKey(fetch[c].file)]
                       = [data |-> fetch'[c].result.val, timestamp |-> now,
                          ttl |-> FetchTtl]]_vars

\* one fetch of the fan-out has failed, and another one, issued with it,
\* has returned the rows of its response, which are in the cache
C26_Witness ==
    /\ JoinStatus = "rejected"
    /\ \E d \in DOMAIN FanOutFiles :
        /\ fetch[d].pc = "returned" /\ fetch[d].issued
        /\ fetch[d].result.val # <<>>
        /\ cache[CacheKey(fetch[d].file)] # Absent
        /\ cache[CacheKey(fetch[d].file)].data = fetch[d].result.val

\* this step is the failure of the fetchCSV of invocation slot c
FailStep(c) == fetch[c].pc = "awaiting" /\ fetch'[c].pc = "thrown"

\* C27 (as claimed): if the request or the parsing inside fetchCSV(filename)
\* fails, the call rejects and, when it has finished, the cache holds no
\* entry written by that call for the filename (nothing new is stored), so
\* that the next fetchCSV for the same filename issues a network request
\* again: the lookup of a call made then finds nothing.
C27_AsClaimed ==
    [][\A c \in Fetchers :
        FailStep(c) =>
            /\ cache' = cache /\ lastStored' = lastStored
            /\ ~Truthy(GetFromCache(CacheKey(fetch[c].file)))]_vars

\* C27: if the request or the parsing inside fetchCSV(filename) fails, the
\* call rejects and, when it has finished, the cache holds no entry written
\* by that call for the filename: its lookup has evicted an expired entry,
\* its failure stores nothing, and an entry only ever appears with the
\* response of a call for that filename. So the next fetchCSV for the same
\* filename issues a network request again, unless another fetchCSV for
\* that filename was in flight and has stored its rows.
C27_FailedFetch ==
    [][/\ \A c \in Fetchers :
            /\ (CallStep(c) /\ fetch'[c].issued)
                => cache'[CacheKey(fetch'[c].file)] = Absent
            /\ FailStep(c) => (cache' = cache /\ lastStored' = lastStored)
            /\ (/\ fetch[c].pc = "thrown"
                /\ cache[CacheKey(fetch[c].file)] = Absent
                /\ \A d \in Fetchers :
                    ~(fetch[d].pc = "awaiting" /\ fetch[d].file = fetch[c].file))
                => /\ cache'[CacheKey(fetch[c].file)] = Absent
                   /\ \A d \in Fetchers :
                        (CallStep(d) /\ fetch'[d].file = fetch[c].file)
                            => fetch'[d].issued
       /\ \A f \in Files :
            (cache[CacheKey(f)] = Absent /\ cache'[CacheKey(f)] # Absent)
                => \E d \in Fetchers :
                    /\ fetch[d].pc = "awaiting" /\ fetch[d].file = f
                    /\ fetch'[d].pc = "returned"]_vars

\* a fetchCSV has failed for a file whose rows had been stored before: the
\* expired entry is gone and no other call for the file is in flight
C27_Witness ==
    \E c \in Fetchers :
        /\ fetch[c].pc = "thrown"
        /\ lastStored[fetch[c].file] # NoCall
        /\ cache[CacheKey(fetch[c].file)] = Absent
        /\ \A d \in Fetchers :
            ~(fetch[d].pc = "awaiting" /\ fetch[d].file = fetch[c].file)

\* C28: starting from the all-null state, after any sequence of
\* clearFilters() and setFilter(key, value) calls in which a hierarchy slot
\* is given a non-null value only while its parent slot is non-null, slots
\* being set to null at any time, the non-null slots of each hierarchy form
\* a prefix of it: no slot is non-null while an earlier slot of the same
\* hierarchy is null.
C28_PrefixInvariant ==
    \A list \in HierarchyLists :
        \A i \in 1..Len(list) : \A h \in 1..(i - 1) :
            store[list[i]] # JsNull => store[list[h]] # JsNull

\* a setFilter(city, null) has just cut the geography prefix down to the
\* region, while the organization slots are filled as far as the category
C28_Witness ==
    /\ lastOp = [op |-> "setFilter", nulled |-> TRUE]
    /\ store["region"] # JsNull
    /\ \A k \in {"city", "municipality", "barangay"} : store[k] = JsNull
    /\ \A k \in {"holding_company", "client", "category"} : store[k] # JsNull
    /\ \A k \in {"brand", "sku"} : store[k] = JsNull

\* C29: calculateKPIMetrics sorts only the freshly built enriched list, so
\* after calculateKPIMetrics or getCustomerBehavior returns, every cached
\* table has the same rows in the same order as before the call, which are
\* the rows a later fetchCSV within the TTL returns.
C29_CacheIntact ==
    [][(/\ answer'.status = "resolved"
        /\ answer'.op \in {"calculateKPIMetrics", "getCustomerBehavior"})
            => tables' = tables]_vars

\* calculateKPIMetrics has returned for a transactions table whose rows are
\* not in descending date order: its sort had rows to move, and the table
\* is still in file order
C29_Witness ==
    /\ ResolvedBy("calculateKPIMetrics")
    /\ LET rows == tables["transactions.csv"]
       IN  /\ \E i \in 1..(Len(rows) - 1) : Timestamp(rows[i]) < Timestamp(rows[i + 1])
           /\ SortByDateDescending(rows) # rows

\* the item rows whose product_id the products table knows
KnownItems(lake) ==
    SelectSeq(lake["transaction_items.csv"],
              LAMBDA item : HasRow(lake["products.csv"], "product_id",
                                   Field(item, "product_id")))

\* the sum of total_revenue over the first n entries
RECURSIVE RevenueOfFirst(_, _)
RevenueOfFirst(entries, n) ==
    IF n = 0 THEN 0 ELSE entries[n].total_revenue + RevenueOfFirst(entries, n - 1)

\* C30: in getProductPerformance an item row contributes its line_total and
\* quantity to exactly one entry, that of its product, when its product_id is
\* in the products table and to no entry otherwise: every entry belongs to a
\* known product and counts in transaction_count the item rows of that
\* product, no two entries share a product, and while the top-50 cut drops
\* nothing the sum of total_revenue over the entries equals the sum of
\* line_total over the items with a known product.
C30_UnknownProducts ==
    ResolvedBy("getProductPerformance") =>
        LET entries == answer.value
        IN  /\ \A i \in 1..Len(entries) :
                /\ entries[i].product_id \in SoldProducts(tables)
                /\ entries[i].transaction_count
                     = Len(ItemRowsOf(tables, entries[i].product_id))
                /\ \A j \in 1..Len(entries) :
                    i # j => entries[i].product_id # entries[j].product_id
            /\ Cardinality(SoldProducts(tables)) <= 50 =>
                /\ {entries[i].product_id : i \in 1..Len(entries)} = SoldProducts(tables)
                /\ RevenueOfFirst(entries, Len(entries))
                     = ColumnTotal(KnownItems(tables), "line_total")

\* the items table holds a row of the unknown product 9 next to a row of
\* product 1: the only entry is that of product 1, with its one row
C30_Witness ==
    /\ ResolvedBy("getProductPerformance")
    /\ Len(KnownItems(tables)) = 1
    /\ Len(tables["transaction_items.csv"]) = 2
    /\ Len(answer.value) = 1
    /\ answer.value[1].transaction_count = 1
    /\ answer.value[1].total_revenue = ColumnTotal(KnownItems(tables), "line_total")

====
